---- MODULE Spec2Model ----
(***************************************************************************)
(* Model of linear-issue-maker: the record matcher of the two backend      *)
(* clients, their identifier extraction, caches and project auto-creation, *)
(* the session lifecycle, the batch loop of the command line and the two   *)
(* parsers (text block and CSV).                                           *)
(*                                                                         *)
(* Python strings are sequences of code points (32 is a space, 65..90 are  *)
(* "A".."Z", 97..122 are "a".."z"), so that strip(), lower() and sorted()  *)
(* are computed, not assumed.  A backend record (a JSON object) is a       *)
(* function from the keys it holds to string values: record.get(k) is      *)
(* None exactly when k is not in its DOMAIN.                               *)
(***************************************************************************)
EXTENDS Integers, Sequences, FiniteSets, TLC

VARIABLES
    \* harness of the pure function _match_record
    m_client,        \* "mcp" | "graphql": whose _match_record is applied
    m_records,       \* the candidate records
    m_expected,      \* the requested name
    m_label,         \* entity_label
    m_result,        \* Pending, or what _match_record returned / raised
    \* harness of the other pure functions (_record_id, the parsers)
    p_in,            \* the argument
    p_out,           \* Pending, or what the function returned / raised
    \* one client instance and the backend behind it
    kind,            \* "mcp" (LinearMCPClient) | "graphql" (LinearGraphQLClient)
    teams_cache,     \* self._teams_cache: None or the team list
    projects_cache,  \* self._projects_cache: team id -> project list
    session,         \* the client holds its session (_exit_stack and _session, or _client)
    transport,       \* the connection behind it: "unopened" | "open" | "closed"
    b_projects,      \* the backend's projects, per team id
    b_issues,        \* how many issues the backend has created
    calls,           \* ghost: every backend request of the session, in order
    \* a caller that uses the client's two operations directly
    resolved,        \* the LinearIdentifiers of the last successful resolve, or None
    last,            \* ghost: the last operation called, its arguments and its result
    n_calls,         \* how many operations were called
    \* the batch command of the command line
    pc,              \* where the caller is
    specs,           \* the parsed issue specifications
    continue_on_error,
    progress,
    idx,             \* the loop's position in specs (enumerate from 1)
    created,         \* the created issues
    failed,          \* the (spec, error message) pairs
    attempted,       \* ghost: the positions the loop has attempted, in order
    returned,        \* what _run_batch returned, or None when it raised
    printed,         \* what the command printed of the issues: progress lines and summary
    exit_code        \* the process exit code, once it has exited

matchVars == <<m_client, m_records, m_expected, m_label, m_result>>

pureVars == <<p_in, p_out>>

clientVars == <<kind, teams_cache, projects_cache, session, transport,
                b_projects, b_issues, calls>>

callerVars == <<resolved, last, n_calls>>

batchVars == <<specs, continue_on_error, progress, idx, created, failed,
               attempted, returned, printed, exit_code>>

vars == <<matchVars, pureVars, clientVars, callerVars, batchVars, pc>>

----------------------------------------------------------------------------
(* Bounds of the model.                                                    *)

\* longest candidate list the matcher harness draws
MaxRecords == 2

\* most operations a direct caller makes in one session
MaxCalls == 3

\* longest batch
MaxSpecs == 3

\* most lines of a text block (after its leading headers, if it has them)
MaxLines == 5

\* most data lines of a CSV text
MaxRows == 3

\* longest template list
MaxTemplates == 3

----------------------------------------------------------------------------
(* Python values.                                                          *)

None == [some |-> FALSE]
Some(v) == [some |-> TRUE, v |-> v]

Ok(v) == [ok |-> TRUE, value |-> v]
Raise(cls, text) == [ok |-> FALSE, error |-> cls, text |-> text]

Pending == [pending |-> TRUE]

\* str.strip() removes leading and trailing whitespace
IsSpace(c) == c \in {9, 10, 11, 12, 13, 32}

RECURSIVE LStrip(_)
LStrip(s) ==
    IF s = <<>> THEN <<>>
    ELSE IF IsSpace(Head(s)) THEN LStrip(Tail(s)) ELSE s

RECURSIVE RStrip(_)
RStrip(s) ==
    IF s = <<>> THEN <<>>
    ELSE IF IsSpace(s[Len(s)]) THEN RStrip(SubSeq(s, 1, Len(s) - 1)) ELSE s

Strip(s) == RStrip(LStrip(s))

\* str.lower() on the ASCII range
LowerChar(c) == IF c >= 65 /\ c <= 90 THEN c + 32 ELSE c

RECURSIVE Lower(_)
Lower(s) == IF s = <<>> THEN <<>> ELSE <<LowerChar(Head(s))>> \o Lower(Tail(s))

\* a < b for Python strings: by code point, a proper prefix first
RECURSIVE StrLess(_, _)
StrLess(a, b) ==
    IF b = <<>> THEN FALSE
    ELSE IF a = <<>> THEN TRUE
    ELSE IF Head(a) # Head(b) THEN Head(a) < Head(b)
    ELSE StrLess(Tail(a), Tail(b))

\* sorted(set of strings)
RECURSIVE Sorted(_)
Sorted(S) ==
    IF S = {} THEN <<>>
    ELSE LET least == CHOOSE x \in S : \A y \in S : y = x \/ StrLess(x, y)
         IN <<least>> \o Sorted(S \ {least})

\* sep.join(parts)
RECURSIVE Join(_, _)
Join(sep, parts) ==
    IF parts = <<>> THEN <<>>
    ELSE IF Len(parts) = 1 THEN parts[1]
    ELSE parts[1] \o sep \o Join(sep, Tail(parts))

\* s in text
Contains(text, s) ==
    \E k \in 0..(Len(text) - Len(s)) : SubSeq(text, k + 1, k + Len(s)) = s

\* the literals of the not-found message
Txt_CouldNotFind == <<67,111,117,108,100,32,110,111,116,32,102,105,110,100,32>>
Txt_Quote == <<39>>
Txt_Available == <<46,32,65,118,97,105,108,97,98,108,101,32,111,112,116,105,111,110,115,58,32>>
Txt_Comma == <<44,32>>
Txt_team == <<116,101,97,109>>
Txt_project == <<112,114,111,106,101,99,116>>

\* f"Could not find {entity_label} '{expected}'. Available options: {available}"
NotFoundText(entity_label, expected, available) ==
    Txt_CouldNotFind \o entity_label \o <<32>> \o Txt_Quote \o expected
        \o Txt_Quote \o Txt_Available \o available

----------------------------------------------------------------------------
(* Record matching.                                                        *)

LabelKeys == <<"name", "title", "key", "slug">>

\* the inner loop: some key of ("name", "title", "key", "slug") holds a
\* string equal to the needle after strip().lower()
RecordHits(record, needle) ==
    \E k \in 1..Len(LabelKeys) :
        /\ LabelKeys[k] \in DOMAIN record
        /\ Lower(Strip(record[LabelKeys[k]])) = needle

\* the outer loop: the first record, in list order, that hits
RECURSIVE FirstHit(_, _, _)
FirstHit(records, needle, i) ==
    IF i > Len(records) THEN None
    ELSE IF RecordHits(records[i], needle) THEN Some(records[i])
    ELSE FirstHit(records, needle, i + 1)

\* any(record.get(field) for field in ("name", "title", "key", "slug"))
HasLabel(record) ==
    \E k \in 1..Len(LabelKeys) :
        LabelKeys[k] \in DOMAIN record /\ record[LabelKeys[k]] # <<>>

\* record.get("name") or record.get("title") or record.get("key") or record.get("slug"),
\* for a record that HasLabel
RECURSIVE FirstLabelFrom(_, _)
FirstLabelFrom(record, k) ==
    IF k = Len(LabelKeys) THEN record[LabelKeys[k]]
    ELSE IF LabelKeys[k] \in DOMAIN record /\ record[LabelKeys[k]] # <<>>
         THEN record[LabelKeys[k]]
         ELSE FirstLabelFrom(record, k + 1)

DisplayLabel(record) == FirstLabelFrom(record, 1)

\* AvailableOptions with every non-empty label of every record listed
AvailableOptions_AllLabels(records) ==
    Join(Txt_Comma,
         Sorted({records[i][LabelKeys[k]] :
                    <<i, k>> \in {<<j, l>> \in (1..Len(records)) \X (1..Len(LabelKeys)) :
                                    /\ LabelKeys[l] \in DOMAIN records[j]
                                    /\ records[j][LabelKeys[l]] # <<>>}}))

\* ", ".join(sorted({...}))
AvailableOptions(records) ==
    Join(Txt_Comma,
         Sorted({DisplayLabel(records[i]) :
                    i \in {j \in 1..Len(records) : HasLabel(records[j])}}))

\* MCP_match_record comparing the record's value without strip()
MCP_match_record_NoStrip(records, expected, entity_label) ==
    LET needle == Lower(Strip(expected))
        hits == {i \in 1..Len(records) :
                    \E k \in 1..Len(LabelKeys) :
                        /\ LabelKeys[k] \in DOMAIN records[i]
                        /\ Lower(records[i][LabelKeys[k]]) = needle}
    IN IF hits # {}
       THEN Ok(records[CHOOSE i \in hits : \A j \in hits : i <= j])
       ELSE Raise("LinearMCPError",
                  NotFoundText(entity_label, expected, AvailableOptions(records)))

MCP_match_record(records, expected, entity_label) ==
    LET needle == Lower(Strip(expected))
        hit == FirstHit(records, needle, 1)
    IN IF hit.some THEN Ok(hit.v)
       ELSE Raise("LinearMCPError",
                  NotFoundText(entity_label, expected, AvailableOptions(records)))

\* _match_record with a needle that is stripped but not lower-cased
GQL_match_record_NoLower(records, expected, entity_label) ==
    LET needle == Strip(expected)
        hit == FirstHit(records, needle, 1)
    IN IF hit.some THEN Ok(hit.v)
       ELSE Raise("LinearGraphQLError",
                  NotFoundText(entity_label, expected, AvailableOptions(records)))

GQL_match_record(records, expected, entity_label) ==
    LET needle == Lower(Strip(expected))
        hit == FirstHit(records, needle, 1)
    IN IF hit.some THEN Ok(hit.v)
       ELSE Raise("LinearGraphQLError",
                  NotFoundText(entity_label, expected, AvailableOptions(records)))

----------------------------------------------------------------------------
(* The backend (the Linear workspace behind either transport) and what one  *)
(* backend request can answer.  A request either fails (the transport, a   *)
(* timeout, an error answer) or answers with the workspace's data; a       *)
(* creation may also be rejected by the backend, or be answered without    *)
(* the created record, or be refused in an answer that carries an object   *)
(* describing the refusal ("reported": a tool result flagged as an error   *)
(* whose content is a JSON object, a mutation answered with success false  *)
(* and a payload).                                                         *)

ListOutcomes == {"ok", "fail"}
CreateOutcomes == {"ok", "fail", "rejected", "empty", "reported"}

\* the object of a "reported" answer: {"error": "no"}
ErrorObject == [error |-> <<110, 111>>]

\* "#bec2c8", the default gray
DefaultColor == "#bec2c8"

S_t1 == <<116, 49>>
S_t2 == <<116, 50>>
S_p1 == <<112, 49>>
S_Be == <<66, 101>>
S_BE == <<66, 69>>
S_Ops == <<79, 112, 115>>
S_Pay == <<80, 97, 121>>

\* the workspace: team Be (key BE) with the project Pay, team Ops without projects
BackendTeams == << [id |-> S_t1, name |-> S_Be, key |-> S_BE],
                   [id |-> S_t2, name |-> S_Ops] >>
TeamIds == {S_t1, S_t2}
InitialProjects ==
    [t \in TeamIds |-> IF t = S_t1 THEN << [id |-> S_p1, name |-> S_Pay] >> ELSE <<>>]

\* the record the backend returns for the n-th project it creates
CreatedProject(n, name) == [id |-> <<112, 50 + n>>, name |-> name]
\* the record the backend returns for the n-th issue it creates
CreatedIssue(n, title) == [id |-> <<105, 48 + n>>, title |-> title]

\* one backend request, as the ghost log keeps it: the operation, its
\* arguments, whether the backend answered it with its data (ok) and how many
\* records the answer carried (items)
Request(op, team, name, color, template, ok, items) ==
    [op |-> op, team |-> team, name |-> name, color |-> color,
     template |-> template, ok |-> ok, items |-> items]

\* how many records an answer of outcome o carries
Answered(o, payload) == IF o = "ok" THEN Len(payload) ELSE 0

\* the n-th project the backend creates is its (n+1)-th success
ProjectsCreated(st) ==
    Len(SelectSeq(st.calls, LAMBDA r : r.op = "create_project" /\ r.ok))

Logged(st, request) == [st EXCEPT !.calls = Append(@, request)]

\* the client and backend state an operation reads and writes
StateNow(tc, pc_, bp, bi, cl) ==
    [teams_cache |-> tc, projects_cache |-> pc_, b_projects |-> bp,
     b_issues |-> bi, calls |-> cl]

Done(st, res) == [st |-> st, res |-> res]

\* dict[key] = value
DictSet(d, key, value) ==
    [k \in DOMAIN d \cup {key} |-> IF k = key THEN value ELSE d[k]]

\* the literals of the other messages
\* "MCP tool '"
Txt_MCPTool == <<77,67,80,32,116,111,111,108,32,39>>
\* "' failed: "
Txt_failed == <<39,32,102,97,105,108,101,100,58,32>>
\* "Tool '"
Txt_Tool == <<84,111,111,108,32,39>>
\* "' did not return a structured list payload"
Txt_NoList == <<39,32,100,105,100,32,110,111,116,32,114,101,116,117,114,110,32,97,32,115,116,114,117,99,116,117,114,101,100,32,108,105,115,116,32,112,97,121,108,111,97,100>>
\* "' did not return structured JSON data"
Txt_NoDict == <<39,32,100,105,100,32,110,111,116,32,114,101,116,117,114,110,32,115,116,114,117,99,116,117,114,101,100,32,74,83,79,78,32,100,97,116,97>>
\* "Record is missing an identifier field: "
Txt_NoIdentifier == <<82,101,99,111,114,100,32,105,115,32,109,105,115,115,105,110,103,32,97,110,32,105,100,101,110,116,105,102,105,101,114,32,102,105,101,108,100,58,32>>
\* "Request failed: "
Txt_RequestFailed == <<82,101,113,117,101,115,116,32,102,97,105,108,101,100,58,32>>
\* "Failed to create project '"
Txt_FailedToCreate == <<70,97,105,108,101,100,32,116,111,32,99,114,101,97,116,101,32,112,114,111,106,101,99,116,32,39>>
\* "' in team '"
Txt_InTeam == <<39,32,105,110,32,116,101,97,109,32,39>>
\* "No project returned from creation"
Txt_NoProject == <<78,111,32,112,114,111,106,101,99,116,32,114,101,116,117,114,110,101,100,32,102,114,111,109,32,99,114,101,97,116,105,111,110>>
\* "Issue creation failed"
Txt_IssueFailed == <<73,115,115,117,101,32,99,114,101,97,116,105,111,110,32,102,97,105,108,101,100>>
\* "No issue returned from creation"
Txt_NoIssue == <<78,111,32,105,115,115,117,101,32,114,101,116,117,114,110,101,100,32,102,114,111,109,32,99,114,101,97,116,105,111,110>>
\* the tool names of LinearMCPConfig
Txt_list_teams == <<108,105,115,116,95,116,101,97,109,115>>
Txt_list_projects == <<108,105,115,116,95,112,114,111,106,101,99,116,115>>
Txt_create_project == <<99,114,101,97,116,101,95,112,114,111,106,101,99,116>>
Txt_create_issue == <<99,114,101,97,116,101,95,105,115,115,117,101>>

----------------------------------------------------------------------------
(* LinearMCPClient.                                                        *)

\* _call_tool when session.call_tool raises
MCP_tool_failed(tool) == Raise("LinearMCPError", Txt_MCPTool \o tool \o Txt_failed)

\* _extract_structured_list on an answer carrying the list `payload` of
\* objects: the list when it holds an object, else LinearMCPError
MCP_extract_structured_list(payload, tool) ==
    IF payload # <<>> THEN Ok(payload)
    ELSE Raise("LinearMCPError", Txt_Tool \o tool \o Txt_NoList)

\* _extract_structured_dict on an answer carrying the object Some(payload),
\* or none
MCP_extract_structured_dict(payload, tool) ==
    IF payload.some THEN Ok(payload.v)
    ELSE Raise("LinearMCPError", Txt_Tool \o tool \o Txt_NoDict)

\* the order with the fallback tried first
MCP_IdKeys_IdentifierFirst == <<"identifier", "id", "teamId", "projectId", "templateId">>

MCP_IdKeys == <<"id", "teamId", "projectId", "templateId", "identifier">>

RECURSIVE MCP_record_id_from(_, _)
MCP_record_id_from(record, k) ==
    IF k > Len(MCP_IdKeys) THEN Raise("LinearMCPError", Txt_NoIdentifier)
    ELSE IF MCP_IdKeys[k] \in DOMAIN record /\ record[MCP_IdKeys[k]] # <<>>
         THEN Ok(record[MCP_IdKeys[k]])
         ELSE MCP_record_id_from(record, k + 1)

MCP_record_id(record) == MCP_record_id_from(record, 1)

MCP_list_teams(st, o) ==
    IF st.teams_cache.some THEN Done(st, Ok(st.teams_cache.v))
    ELSE LET teams == IF o = "ok"
                      THEN MCP_extract_structured_list(BackendTeams, Txt_list_teams)
                      ELSE MCP_tool_failed(Txt_list_teams)
             st1 == Logged(st, Request("list_teams", <<>>, <<>>, "", <<>>,
                                       o = "ok", Answered(o, BackendTeams)))
         IN IF teams.ok
            THEN Done([st1 EXCEPT !.teams_cache = Some(teams.value)], teams)
            ELSE Done(st1, teams)

\* _list_projects that does not keep the answer
MCP_list_projects_NoStore(st, team_id, o) ==
    IF team_id \in DOMAIN st.projects_cache
    THEN Done(st, Ok(st.projects_cache[team_id]))
    ELSE LET projects == IF o = "ok"
                         THEN MCP_extract_structured_list(st.b_projects[team_id],
                                                          Txt_list_projects)
                         ELSE MCP_tool_failed(Txt_list_projects)
         IN Done(Logged(st, Request("list_projects", team_id, <<>>, "", <<>>,
                                    o = "ok", Answered(o, st.b_projects[team_id]))),
                 projects)

MCP_list_projects(st, team_id, o) ==
    IF team_id \in DOMAIN st.projects_cache
    THEN Done(st, Ok(st.projects_cache[team_id]))
    ELSE LET projects == IF o = "ok"
                         THEN MCP_extract_structured_list(st.b_projects[team_id],
                                                          Txt_list_projects)
                         ELSE MCP_tool_failed(Txt_list_projects)
             st1 == Logged(st, Request("list_projects", team_id, <<>>, "", <<>>,
                                       o = "ok", Answered(o, st.b_projects[team_id])))
         IN IF projects.ok
            THEN Done([st1 EXCEPT !.projects_cache =
                                      DictSet(@, team_id, projects.value)], projects)
            ELSE Done(st1, projects)

\* _create_project that leaves the cache as it was
MCP_create_project_NoAppend(st, name, team_id, team_name, o) ==
    LET made == CreatedProject(ProjectsCreated(st), name)
        project == IF o \in {"fail", "rejected"} THEN MCP_tool_failed(Txt_create_project)
                   ELSE MCP_extract_structured_dict(
                            IF o = "ok" THEN Some(made)
                            ELSE IF o = "reported" THEN Some(ErrorObject)
                            ELSE None, Txt_create_project)
        st1 == Logged(st, Request("create_project", team_id, name, DefaultColor, <<>>,
                                  o = "ok", Answered(o, <<made>>)))
    IN IF project.ok
       THEN Done([st1 EXCEPT !.b_projects[team_id] = IF o = "ok" THEN Append(@, made) ELSE @], project)
       ELSE Done(st1, project)

MCP_create_project(st, name, team_id, team_name, o) ==
    LET made == CreatedProject(ProjectsCreated(st), name)
        project == IF o \in {"fail", "rejected"} THEN MCP_tool_failed(Txt_create_project)
                   ELSE MCP_extract_structured_dict(
                            IF o = "ok" THEN Some(made)
                            ELSE IF o = "reported" THEN Some(ErrorObject)
                            ELSE None, Txt_create_project)
        st1 == Logged(st, Request("create_project", team_id, name, DefaultColor, <<>>,
                                  o = "ok", Answered(o, <<made>>)))
    IN IF project.ok
       THEN Done([st1 EXCEPT
                    !.b_projects[team_id] = IF o = "ok" THEN Append(@, made) ELSE @,
                    !.projects_cache =
                        IF team_id \in DOMAIN @
                        THEN [@ EXCEPT ![team_id] = Append(@, project.value)]
                        ELSE DictSet(@, team_id, <<project.value>>)],
                 project)
       ELSE Done(st1, project)

MCP_resolve_team(st, team_name, oT) ==
    LET teams == MCP_list_teams(st, oT)
    IN IF teams.res.ok
       THEN Done(teams.st, MCP_match_record(teams.res.value, team_name, Txt_team))
       ELSE teams

MCP_resolve_project(st, project_name, team, create_if_missing, oP, oC) ==
    LET team_id == MCP_record_id(team)
        projects == MCP_list_projects(st, team_id.value, oP)
        found == MCP_match_record(projects.res.value, project_name, Txt_project)
    IN IF ~team_id.ok THEN Done(st, team_id)
       ELSE IF ~projects.res.ok THEN projects
       ELSE IF found.ok THEN Done(projects.st, found)
       ELSE IF ~create_if_missing THEN Done(projects.st, found)
       ELSE MCP_create_project(projects.st, project_name, team_id.value,
                               IF "name" \in DOMAIN team THEN team.name ELSE team_id.value,
                               oC)

MCP_resolve_identifiers(st, team, project, create_missing_projects, oT, oP, oC) ==
    LET team_record == MCP_resolve_team(st, team, oT)
        project_record == MCP_resolve_project(team_record.st, project, team_record.res.value,
                                              create_missing_projects, oP, oC)
    IN IF ~team_record.res.ok THEN team_record
       ELSE IF ~project_record.res.ok THEN project_record
       ELSE Done(project_record.st,
                 Ok([team |-> team_record.res.value, project |-> project_record.res.value]))

MCP_create_issue(st, spec, identifiers, o) ==
    LET team_id == MCP_record_id(identifiers.team)
        project_id == MCP_record_id(identifiers.project)
        issue == IF o \in {"fail", "rejected"} THEN MCP_tool_failed(Txt_create_issue)
                 ELSE MCP_extract_structured_dict(
                          IF o = "ok" THEN Some(CreatedIssue(st.b_issues + 1, spec.title))
                          ELSE IF o = "reported" THEN Some(ErrorObject)
                          ELSE None, Txt_create_issue)
        st1 == Logged(st, Request("create_issue", team_id.value, spec.title, "", <<>>,
                                  o = "ok", Answered(o, <<issue>>)))
    IN IF ~team_id.ok THEN Done(st, team_id)
       ELSE IF ~project_id.ok THEN Done(st, project_id)
       ELSE IF issue.ok
            THEN Done([st1 EXCEPT !.b_issues = IF o = "ok" THEN @ + 1 ELSE @], issue)
       ELSE Done(st1, issue)

----------------------------------------------------------------------------
(* LinearGraphQLClient.                                                    *)

\* _execute_graphql raising (HTTP status, timeout, GraphQL errors, no data)
GQL_request_failed == Raise("LinearGraphQLError", Txt_RequestFailed)

GQL_IdKeys == <<"id", "teamId", "projectId", "identifier">>

\* LinearIdentifiers._extract_id of base_client
RECURSIVE Base_extract_id_from(_, _)
Base_extract_id_from(record, k) ==
    IF k > Len(GQL_IdKeys) THEN Raise("ValueError", Txt_NoIdentifier)
    ELSE IF GQL_IdKeys[k] \in DOMAIN record /\ record[GQL_IdKeys[k]] # <<>>
         THEN Ok(record[GQL_IdKeys[k]])
         ELSE Base_extract_id_from(record, k + 1)

Base_extract_id(record) == Base_extract_id_from(record, 1)

GQL_list_teams(st, o) ==
    IF st.teams_cache.some THEN Done(st, Ok(st.teams_cache.v))
    ELSE LET teams == IF o = "ok" THEN Ok(BackendTeams) ELSE GQL_request_failed
             st1 == Logged(st, Request("list_teams", <<>>, <<>>, "", <<>>,
                                       o = "ok", Answered(o, BackendTeams)))
         IN IF teams.ok
            THEN Done([st1 EXCEPT !.teams_cache = Some(teams.value)], teams)
            ELSE Done(st1, teams)

GQL_list_projects(st, team_id, o) ==
    IF team_id \in DOMAIN st.projects_cache
    THEN Done(st, Ok(st.projects_cache[team_id]))
    ELSE LET projects == IF o = "ok" THEN Ok(st.b_projects[team_id])
                         ELSE GQL_request_failed
             st1 == Logged(st, Request("list_projects", team_id, <<>>, "", <<>>,
                                       o = "ok", Answered(o, st.b_projects[team_id])))
         IN IF projects.ok
            THEN Done([st1 EXCEPT !.projects_cache =
                                      DictSet(@, team_id, projects.value)], projects)
            ELSE Done(st1, projects)

GQL_create_project(st, name, team_id, team_name, o) ==
    LET made == CreatedProject(ProjectsCreated(st), name)
        project == IF o = "fail" THEN GQL_request_failed
                   ELSE IF o \in {"rejected", "reported"}
                   THEN Raise("LinearGraphQLError",
                              Txt_FailedToCreate \o name \o Txt_InTeam \o team_name \o Txt_Quote)
                   ELSE IF o = "empty"
                   THEN Raise("LinearGraphQLError", Txt_NoProject)
                   ELSE Ok(made)
        st1 == Logged(st, Request("create_project", team_id, name, DefaultColor, <<>>,
                                  o = "ok", Answered(o, <<made>>)))
    IN IF project.ok
       THEN Done([st1 EXCEPT
                    !.b_projects[team_id] = Append(@, made),
                    !.projects_cache =
                        IF team_id \in DOMAIN @
                        THEN [@ EXCEPT ![team_id] = Append(@, project.value)]
                        ELSE DictSet(@, team_id, <<project.value>>)],
                 project)
       ELSE Done(st1, project)

GQL_resolve_team(st, team_name, oT) ==
    LET teams == GQL_list_teams(st, oT)
    IN IF teams.res.ok
       THEN Done(teams.st, GQL_match_record(teams.res.value, team_name, Txt_team))
       ELSE teams

GQL_resolve_project(st, project_name, team, create_if_missing, oP, oC) ==
    LET projects == GQL_list_projects(st, team.id, oP)
        found == GQL_match_record(projects.res.value, project_name, Txt_project)
    IN IF "id" \notin DOMAIN team THEN Done(st, Raise("KeyError", <<39, 105, 100, 39>>))
       ELSE IF ~projects.res.ok THEN projects
       ELSE IF found.ok THEN Done(projects.st, found)
       ELSE IF ~create_if_missing THEN Done(projects.st, found)
       ELSE GQL_create_project(projects.st, project_name, team.id,
                               IF "name" \in DOMAIN team THEN team.name ELSE team.id, oC)

GQL_resolve_identifiers(st, team, project, create_missing_projects, oT, oP, oC) ==
    LET team_record == GQL_resolve_team(st, team, oT)
        project_record == GQL_resolve_project(team_record.st, project, team_record.res.value,
                                              create_missing_projects, oP, oC)
    IN IF ~team_record.res.ok THEN team_record
       ELSE IF ~project_record.res.ok THEN project_record
       ELSE Done(project_record.st,
                 Ok([team |-> team_record.res.value, project |-> project_record.res.value]))

\* the workspace's templates, as the templates query returns them
S_m1 == <<109, 49>>
S_m2 == <<109, 50>>
S_Story == <<83, 116, 111, 114, 121>>
S_story == <<115, 116, 111, 114, 121>>
BackendTemplates == << [id |-> S_m1, name |-> S_Story, teamId |-> S_t2],
                       [id |-> S_m2, name |-> S_story, teamId |-> S_t1] >>

\* _resolve_template without the preference for the target team
GQL_resolve_template_from_AnyTeam(templates, st, template_name, team_id, o) ==
    LET needle == Lower(Strip(template_name))
        Named(t) == Lower(Strip(IF "name" \in DOMAIN t THEN t.name ELSE <<>>)) = needle
        OfTeam(t) == Named(t) /\ "teamId" \in DOMAIN t /\ t.teamId = team_id
        same_team == {i \in 1..Len(templates) : OfTeam(templates[i])}
        any_team == {i \in 1..Len(templates) : Named(templates[i])}
        First(S) == templates[CHOOSE i \in S : \A j \in S : i <= j]
        st1 == Logged(st, Request("templates", <<>>, <<>>, "", <<>>, o = "ok",
                                  Answered(o, templates)))
        Id(t) == IF "id" \in DOMAIN t THEN Some(t.id) ELSE None
    IN IF o # "ok" THEN Done(st1, None)
       ELSE IF any_team # {} THEN Done(st1, Id(First(any_team)))
       ELSE Done(st1, None)

\* _resolve_template over the template list the backend holds: the template
\* id, or None (also when the query fails, or the matched record has no id and
\* the KeyError is swallowed)
GQL_resolve_template_from(templates, st, template_name, team_id, o) ==
    LET needle == Lower(Strip(template_name))
        Named(t) == Lower(Strip(IF "name" \in DOMAIN t THEN t.name ELSE <<>>)) = needle
        OfTeam(t) == Named(t) /\ "teamId" \in DOMAIN t /\ t.teamId = team_id
        same_team == {i \in 1..Len(templates) : OfTeam(templates[i])}
        any_team == {i \in 1..Len(templates) : Named(templates[i])}
        First(S) == templates[CHOOSE i \in S : \A j \in S : i <= j]
        st1 == Logged(st, Request("templates", <<>>, <<>>, "", <<>>, o = "ok",
                                  Answered(o, templates)))
        Id(t) == IF "id" \in DOMAIN t THEN Some(t.id) ELSE None
    IN IF o # "ok" THEN Done(st1, None)
       ELSE IF same_team # {} THEN Done(st1, Id(First(same_team)))
       ELSE IF any_team # {} THEN Done(st1, Id(First(any_team)))
       ELSE Done(st1, None)

\* _resolve_template against the workspace
GQL_resolve_template(st, template_name, team_id, o) ==
    GQL_resolve_template_from(BackendTemplates, st, template_name, team_id, o)

GQL_create_issue(st, spec, identifiers, oTpl, o) ==
    LET team_id == Base_extract_id(identifiers.team)
        project_id == Base_extract_id(identifiers.project)
        wanted == spec.template # <<>>
        template == IF wanted
                    THEN GQL_resolve_template(st, spec.template, team_id.value, oTpl)
                    ELSE Done(st, None)
        attached == IF template.res.some /\ template.res.v # <<>> THEN template.res.v ELSE <<>>
        issue == IF o = "fail" THEN GQL_request_failed
                 ELSE IF o \in {"rejected", "reported"}
                 THEN Raise("LinearGraphQLError", Txt_IssueFailed)
                 ELSE IF o = "empty" THEN Raise("LinearGraphQLError", Txt_NoIssue)
                 ELSE Ok(CreatedIssue(st.b_issues + 1, spec.title))
        st1 == Logged(template.st,
                      Request("create_issue", team_id.value, spec.title, "", attached,
                              o = "ok", Answered(o, <<issue>>)))
    IN IF ~team_id.ok THEN Done(st, team_id)
       ELSE IF ~project_id.ok THEN Done(st, project_id)
       ELSE IF "template" \notin DOMAIN spec
            THEN Done(st, Raise("AttributeError", <<116,101,109,112,108,97,116,101>>))
       ELSE IF issue.ok THEN Done([st1 EXCEPT !.b_issues = @ + 1], issue)
       ELSE Done(st1, issue)

----------------------------------------------------------------------------
(* The client's session: what it holds and what is open behind it.         *)

\* what entering the client can come to.  MCP's _ensure_session opens the SSE
\* transport, enters the ClientSession and initialises it: it can fail before
\* the transport is open or after.  GraphQL only builds its HTTP client.
EnterOutcomes(k) == IF k = "mcp" THEN {"ok", "fail_open", "fail_init"} ELSE {"ok"}

\* __aenter__: <<the client holds the session, the transport, entered>>
Client_aenter(k, o) ==
    IF k = "mcp"
    THEN CASE o = "ok" -> [session |-> TRUE, transport |-> "open", entered |-> TRUE]
           [] o = "fail_open" -> [session |-> FALSE, transport |-> "unopened", entered |-> FALSE]
           [] OTHER -> [session |-> FALSE, transport |-> "open", entered |-> FALSE]
    ELSE [session |-> TRUE, transport |-> "open", entered |-> TRUE]

\* __aexit__ (aclose): releases what the client holds, if it holds anything
Client_aexit(k, held, tr) ==
    IF held THEN [session |-> FALSE, transport |-> "closed"]
    ELSE [session |-> FALSE, transport |-> tr]

\* the two clients behind the one contract
Client_resolve_identifiers(k, st, team, project, flag, oT, oP, oC) ==
    IF k = "mcp" THEN MCP_resolve_identifiers(st, team, project, flag, oT, oP, oC)
    ELSE GQL_resolve_identifiers(st, team, project, flag, oT, oP, oC)

Client_create_issue(k, st, spec, identifiers, oTpl, o) ==
    IF k = "mcp" THEN MCP_create_issue(st, spec, identifiers, o)
    ELSE GQL_create_issue(st, spec, identifiers, oTpl, o)

----------------------------------------------------------------------------
(* What the variables hold where a specification does not use them.        *)

NoCall == [op |-> "none"]

IdleMatch ==
    /\ m_client = "none"
    /\ m_records = <<>>
    /\ m_expected = <<>>
    /\ m_label = <<>>
    /\ m_result = Pending

IdlePure ==
    /\ p_in = <<>>
    /\ p_out = Pending

\* a client as __init__ leaves it, in front of the workspace
FreshClient ==
    /\ teams_cache = None
    /\ projects_cache = <<>>
    /\ session = FALSE
    /\ transport = "unopened"
    /\ b_projects = InitialProjects
    /\ b_issues = 0
    /\ calls = <<>>

IdleCaller ==
    /\ resolved = None
    /\ last = NoCall
    /\ n_calls = 0

IdleBatch ==
    /\ specs = <<>>
    /\ continue_on_error = FALSE
    /\ progress = FALSE
    /\ idx = 0
    /\ created = <<>>
    /\ failed = <<>>
    /\ attempted = <<>>
    /\ returned = None
    /\ printed = <<>>
    /\ exit_code = None

\* the outcomes to draw for a request: one when the request cannot be made
OutcomesIf(possible, outcomes) == IF possible THEN outcomes ELSE {"ok"}

\* the client and backend state an operation starts from
Here == StateNow(teams_cache, projects_cache, b_projects, b_issues, calls)

\* the client and backend state an operation leaves
ClientBecomes(st) ==
    /\ teams_cache' = st.teams_cache
    /\ projects_cache' = st.projects_cache
    /\ b_projects' = st.b_projects
    /\ b_issues' = st.b_issues
    /\ calls' = st.calls

----------------------------------------------------------------------------
(* SpecMatch: _match_record applied to every candidate list of at most     *)
(* MaxRecords records of RecordPool and every name of ExpectedPool.        *)

\* label values: "", " a", "A", "b"
V_empty == <<>>
V_sp_a == <<32, 97>>
V_A == <<65>>
V_b == <<98>>

RecordPool ==
    {  <<>>,                                         \* a record without labels
       [name |-> V_empty], [name |-> V_sp_a], [name |-> V_A], [name |-> V_b],
       [title |-> V_sp_a], [title |-> V_b],
       [key |-> V_A], [key |-> V_b],
       [slug |-> V_sp_a], [slug |-> V_b],
       [name |-> V_b, key |-> V_A],
       [name |-> V_empty, key |-> V_sp_a],
       [name |-> V_A, key |-> V_b],
       [name |-> V_sp_a, key |-> V_empty],
       [title |-> V_empty, slug |-> V_b],
       [title |-> V_b, slug |-> V_sp_a],
       [name |-> V_empty, title |-> V_empty, key |-> V_empty, slug |-> V_A],
       [name |-> V_b, title |-> V_A, key |-> V_sp_a, slug |-> V_empty] }

\* requested names: "a", "A ", "b", "c", ""
ExpectedPool == { <<97>>, <<65, 32>>, <<98>>, <<99>>, <<>> }

RecordLists ==
    UNION { [1..n -> RecordPool] : n \in 0..MaxRecords }

InitMatch ==
    /\ m_client \in {"mcp", "graphql"}
    /\ m_records \in RecordLists
    /\ m_expected \in ExpectedPool
    /\ m_label \in {Txt_team, Txt_project}
    /\ m_result = Pending
    /\ kind = "none"
    /\ FreshClient
    /\ IdleCaller
    /\ IdleBatch
    /\ IdlePure
    /\ pc = "match"

ApplyMatch ==
    /\ m_result = Pending
    /\ m_result' = IF m_client = "mcp"
                   THEN MCP_match_record(m_records, m_expected, m_label)
                   ELSE GQL_match_record(m_records, m_expected, m_label)
    /\ UNCHANGED <<m_client, m_records, m_expected, m_label>>
    /\ UNCHANGED <<pureVars, clientVars, callerVars, batchVars, pc>>

NextMatch == ApplyMatch

SpecMatch == InitMatch /\ [][NextMatch]_vars

----------------------------------------------------------------------------
(* parser.py: IssueSpec and parse_issue_spec.                              *)

\* "title"
Txt_title == <<116,105,116,108,101>>
\* "summary"
Txt_summary == <<115,117,109,109,97,114,121>>
\* "Template"
Txt_Template == <<84,101,109,112,108,97,116,101>>
\* "Summary"
Txt_Summary == <<83,117,109,109,97,114,121>>
\* "Field '"
Txt_Field == <<70,105,101,108,100,32,39>>
\* "' cannot be empty"
Txt_CannotBeEmpty == <<39,32,99,97,110,110,111,116,32,98,101,32,101,109,112,116,121>>
\* "Input text is empty"
Txt_InputEmpty == <<73,110,112,117,116,32,116,101,120,116,32,105,115,32,101,109,112,116,121>>
\* "Unknown header '"
Txt_UnknownHeader == <<85,110,107,110,111,119,110,32,104,101,97,100,101,114,32,39>>
\* "Duplicate header '"
Txt_DuplicateHeader == <<68,117,112,108,105,99,97,116,101,32,104,101,97,100,101,114,32,39>>
\* "Unexpected content before Summary: '"
Txt_Unexpected == <<85,110,101,120,112,101,99,116,101,100,32,99,111,110,116,101,110,116,32,98,101,102,111,114,101,32,83,117,109,109,97,114,121,58,32,39>>
\* "Missing 'Summary' section"
Txt_MissingSummary == <<77,105,115,115,105,110,103,32,39,83,117,109,109,97,114,121,39,32,115,101,99,116,105,111,110>>
\* "Missing headers: "
Txt_MissingHeaders == <<77,105,115,115,105,110,103,32,104,101,97,100,101,114,115,58,32>>

\* "\n"
NL == <<10>>

FieldText(f) ==
    CASE f = "team" -> Txt_team
      [] f = "project" -> Txt_project
      [] f = "title" -> Txt_title
      [] OTHER -> Txt_summary

\* the fields IssueSpec declares, in order
IssueSpecFields == <<"team", "project", "title", "summary">>

\* IssueSpec(team=, project=, title=, summary=): _non_empty strips each field
\* and rejects an empty one; pydantic raises one ValidationError (a
\* ValueError) that carries the message of every rejected field
IssueSpec(team, project, title, summary) ==
    LET given == [team |-> team, project |-> project, title |-> title, summary |-> summary]
        rejected == SelectSeq(IssueSpecFields, LAMBDA f : Strip(given[f]) = <<>>)
    IN IF rejected = <<>>
       THEN Ok([f \in DOMAIN given |-> Strip(given[f])])
       ELSE Raise("ValidationError",
                  Join(NL, [k \in 1..Len(rejected) |->
                              Txt_Field \o FieldText(rejected[k]) \o Txt_CannotBeEmpty]))

\* the exception classes that are ValueError
ValueErrors == {"ValueError", "ValidationError"}

\* _VALID_HEADERS, _REQUIRED_HEADERS
ValidHeaders == {Txt_team, Txt_project, Txt_title, Txt_summary}
RequiredHeaders == {Txt_team, Txt_project, Txt_title, Txt_summary}

\* [A-Za-z]
IsLetter(c) == (c >= 65 /\ c <= 90) \/ (c >= 97 /\ c <= 122)

\* how many letters s starts with
RECURSIVE LetterRun(_)
LetterRun(s) == IF s # <<>> /\ IsLetter(Head(s)) THEN 1 + LetterRun(Tail(s)) ELSE 0

\* _HEADER_PATTERN.match(s), ^(?P<key>[A-Za-z]+):\s*(?P<value>.*)$ : the
\* groups, or None
HeaderMatch(s) ==
    LET n == LetterRun(s)
    IN IF n > 0 /\ n < Len(s) /\ s[n + 1] = 58
       THEN Some([key |-> SubSeq(s, 1, n), value |-> LStrip(SubSeq(s, n + 2, Len(s)))])
       ELSE None

\* str.splitlines() of a text whose only line boundary is "\n"
RECURSIVE SplitLines(_)
SplitLines(text) ==
    IF text = <<>> THEN <<>>
    ELSE LET ends == {k \in 1..Len(text) : text[k] = 10}
             k == CHOOSE e \in ends : \A f \in ends : e <= f
         IN IF ends = {} THEN <<text>>
            ELSE <<SubSeq(text, 1, k - 1)>> \o SplitLines(SubSeq(text, k + 1, Len(text)))

\* the loop with blank lines of the summary body left out
RECURSIVE ParseLines_SkipBlank(_, _, _, _)
ParseLines_SkipBlank(lines, values, summary_lines, in_summary) ==
    IF lines = <<>>
    THEN Ok([values |-> values, summary_lines |-> summary_lines, in_summary |-> in_summary])
    ELSE LET line == Head(lines)
             match == HeaderMatch(Strip(line))
             key == Lower(match.v.key)
             value == match.v.value
         IN IF in_summary
            THEN ParseLines_SkipBlank(Tail(lines), values,
                                      IF Strip(line) = <<>> THEN summary_lines
                                      ELSE Append(summary_lines, line), TRUE)
            ELSE IF match.some
            THEN IF key \notin ValidHeaders
                 THEN Raise("ValueError", Txt_UnknownHeader \o match.v.key \o Txt_Quote)
                 ELSE IF key = Txt_summary
                 THEN ParseLines_SkipBlank(Tail(lines), values,
                                 IF value # <<>> THEN Append(summary_lines, value)
                                 ELSE summary_lines, TRUE)
                 ELSE IF key \in DOMAIN values
                 THEN Raise("ValueError", Txt_DuplicateHeader \o match.v.key \o Txt_Quote)
                 ELSE ParseLines_SkipBlank(Tail(lines), DictSet(values, key, Strip(value)),
                                 summary_lines, FALSE)
            ELSE IF Strip(line) = <<>>
            THEN ParseLines_SkipBlank(Tail(lines), values, summary_lines, FALSE)
            ELSE Raise("ValueError", Txt_Unexpected \o line \o Txt_Quote)

\* the loop of parse_issue_spec over the lines left
RECURSIVE ParseLines(_, _, _, _)
ParseLines(lines, values, summary_lines, in_summary) ==
    IF lines = <<>>
    THEN Ok([values |-> values, summary_lines |-> summary_lines, in_summary |-> in_summary])
    ELSE LET line == Head(lines)
             match == HeaderMatch(Strip(line))
             key == Lower(match.v.key)
             value == match.v.value
         IN IF in_summary
            THEN ParseLines(Tail(lines), values, Append(summary_lines, line), TRUE)
            ELSE IF match.some
            THEN IF key \notin ValidHeaders
                 THEN Raise("ValueError", Txt_UnknownHeader \o match.v.key \o Txt_Quote)
                 ELSE IF key = Txt_summary
                 THEN ParseLines(Tail(lines), values,
                                 IF value # <<>> THEN Append(summary_lines, value)
                                 ELSE summary_lines, TRUE)
                 ELSE IF key \in DOMAIN values
                 THEN Raise("ValueError", Txt_DuplicateHeader \o match.v.key \o Txt_Quote)
                 ELSE ParseLines(Tail(lines), DictSet(values, key, Strip(value)),
                                 summary_lines, FALSE)
            ELSE IF Strip(line) = <<>>
            THEN ParseLines(Tail(lines), values, summary_lines, FALSE)
            ELSE Raise("ValueError", Txt_Unexpected \o line \o Txt_Quote)

parse_issue_spec(raw_text) ==
    LET loop == ParseLines(SplitLines(raw_text), <<>>, <<>>, FALSE)
        values == DictSet(loop.value.values, Txt_summary,
                          Strip(Join(NL, loop.value.summary_lines)))
        missing == RequiredHeaders \ DOMAIN values
    IN IF Strip(raw_text) = <<>> THEN Raise("ValueError", Txt_InputEmpty)
       ELSE IF ~loop.ok THEN loop
       ELSE IF ~loop.value.in_summary THEN Raise("ValueError", Txt_MissingSummary)
       ELSE IF missing # {}
       THEN Raise("ValueError", Txt_MissingHeaders \o Join(Txt_Comma, Sorted(missing)))
       ELSE IssueSpec(values[Txt_team], values[Txt_project], values[Txt_title],
                      values[Txt_summary])

----------------------------------------------------------------------------
(* parser.py: parse_csv_specs, over csv.DictReader.                        *)

\* "CSV input is empty"
Txt_CsvEmpty == <<67,83,86,32,105,110,112,117,116,32,105,115,32,101,109,112,116,121>>
\* "CSV has no header row"
Txt_NoHeaderRow == <<67,83,86,32,104,97,115,32,110,111,32,104,101,97,100,101,114,32,114,111,119>>
\* "CSV is missing required columns: "
Txt_MissingColumns == <<67,83,86,32,105,115,32,109,105,115,115,105,110,103,32,114,101,113,117,105,114,101,100,32,99,111,108,117,109,110,115,58,32>>
\* ". Available columns: "
Txt_AvailableColumns == <<46,32,65,118,97,105,108,97,98,108,101,32,99,111,108,117,109,110,115,58,32>>
\* "Row "
Txt_Row == <<82,111,119,32>>
\* ": "
Txt_ColonSp == <<58,32>>
\* "CSV parsing errors:\n  "
Txt_CsvErrors == <<67,83,86,32,112,97,114,115,105,110,103,32,101,114,114,111,114,115,58,10,32,32>>
\* "\n  "
Txt_ErrorSep == <<10,32,32>>
\* "No valid issues found in CSV"
Txt_NoValidIssues == <<78,111,32,118,97,108,105,100,32,105,115,115,117,101,115,32,102,111,117,110,100,32,105,110,32,67,83,86>>
\* "'NoneType' object has no attribute 'strip'"
Txt_NoneHasNoStrip == <<39,78,111,110,101,84,121,112,101,39,32,111,98,106,101,99,116,32,104,97,115,32,110,111,32,97,116,116,114,105,98,117,116,101,32,39,115,116,114,105,112,39>>

\* str(n) for a natural number
RECURSIVE Decimal(_)
Decimal(n) == IF n < 10 THEN <<48 + n>> ELSE Decimal(n \div 10) \o <<48 + (n % 10)>>

\* the fields of a non-empty line without quotes
RECURSIVE Fields(_, _)
Fields(s, delimiter) ==
    LET at == {k \in 1..Len(s) : s[k] = delimiter}
        k == CHOOSE e \in at : \A f \in at : e <= f
    IN IF at = {} THEN <<s>>
       ELSE <<SubSeq(s, 1, k - 1)>> \o Fields(SubSeq(s, k + 1, Len(s)), delimiter)

\* csv.reader: one list of fields per line, the empty list for an empty line
CsvRecords(text, delimiter) ==
    LET lines == SplitLines(text)
    IN [k \in 1..Len(lines) |->
          IF lines[k] = <<>> THEN <<>> ELSE Fields(lines[k], delimiter)]

\* DictReader.fieldnames: the first record, None without one
Fieldnames(records) == IF records = <<>> THEN None ELSE Some(records[1])

\* the rows DictReader yields: the records after the first, empty ones skipped
DataRows(records) == SelectSeq(Tail(records), LAMBDA r : r # <<>>)

\* row[name] of the dict DictReader builds: the cell under the last column
\* of that name, None (restval) when the row is too short to have it
Cell(fieldnames, row, name) ==
    LET at == {k \in 1..Len(fieldnames) : fieldnames[k] = name}
        where == CHOOSE k \in at : \A l \in at : l <= k
    IN IF where <= Len(row) THEN Some(row[where]) ELSE None

\* {name.strip().lower(): name for name in reader.fieldnames if name}
NormalizedFieldnames(fieldnames) ==
    LET named == {k \in 1..Len(fieldnames) : fieldnames[k] # <<>>}
        Norm(k) == Lower(Strip(fieldnames[k]))
    IN [n \in {Norm(k) : k \in named} |->
          fieldnames[CHOOSE k \in named : Norm(k) = n /\ \A l \in named : Norm(l) = n => l <= k]]

RequiredCols == {Txt_team, Txt_project, Txt_title, Txt_summary}

\* only the first of the missing columns
MissingCols_OnlyFirst(normalized_fieldnames) ==
    LET missing == RequiredCols \ DOMAIN normalized_fieldnames
    IN IF missing = {} THEN {} ELSE {Sorted(missing)[1]}

\* required_cols - set(normalized_fieldnames.keys())
MissingCols(normalized_fieldnames) == RequiredCols \ DOMAIN normalized_fieldnames

\* a row of four empty fields validated like any other
CsvRow_NoSkip(fieldnames, col_map, row, row_num) ==
    LET team == Cell(fieldnames, row, col_map[Txt_team])
        project == Cell(fieldnames, row, col_map[Txt_project])
        title == Cell(fieldnames, row, col_map[Txt_title])
        summary == Cell(fieldnames, row, col_map[Txt_summary])
        spec == IssueSpec(Strip(team.v), Strip(project.v), Strip(title.v), Strip(summary.v))
    IN IF ~team.some \/ ~project.some \/ ~title.some \/ ~summary.some
       THEN [kind |-> "raise", res |-> Raise("AttributeError", Txt_NoneHasNoStrip)]
       ELSE IF spec.ok THEN [kind |-> "spec", spec |-> spec.value]
       ELSE [kind |-> "error",
             text |-> Txt_Row \o Decimal(row_num) \o Txt_ColonSp \o spec.text]

\* the body of the loop over the rows: the row is skipped, gives a
\* specification, gives an entry of errors, or raises out of the loop
CsvRow(fieldnames, col_map, row, row_num) ==
    LET team == Cell(fieldnames, row, col_map[Txt_team])
        project == Cell(fieldnames, row, col_map[Txt_project])
        title == Cell(fieldnames, row, col_map[Txt_title])
        summary == Cell(fieldnames, row, col_map[Txt_summary])
        spec == IssueSpec(Strip(team.v), Strip(project.v), Strip(title.v), Strip(summary.v))
    IN IF ~team.some \/ ~project.some \/ ~title.some \/ ~summary.some
       THEN [kind |-> "raise", res |-> Raise("AttributeError", Txt_NoneHasNoStrip)]
       ELSE IF Strip(team.v) = <<>> /\ Strip(project.v) = <<>>
               /\ Strip(title.v) = <<>> /\ Strip(summary.v) = <<>>
       THEN [kind |-> "skip"]
       ELSE IF spec.ok THEN [kind |-> "spec", spec |-> spec.value]
       ELSE [kind |-> "error",
             text |-> Txt_Row \o Decimal(row_num) \o Txt_ColonSp \o spec.text]

\* for row_num, row in enumerate(reader, start=2), over the rows left
RECURSIVE CsvLoop(_, _, _, _, _, _)
CsvLoop(fieldnames, col_map, rows, row_num, specs_, errors) ==
    IF rows = <<>> THEN Ok([specs |-> specs_, errors |-> errors])
    ELSE LET r == CsvRow(fieldnames, col_map, Head(rows), row_num)
         IN IF r.kind = "raise" THEN r.res
            ELSE CsvLoop(fieldnames, col_map, Tail(rows), row_num + 1,
                         IF r.kind = "spec" THEN Append(specs_, r.spec) ELSE specs_,
                         IF r.kind = "error" THEN Append(errors, r.text) ELSE errors)

parse_csv_specs(csv_text, delimiter) ==
    LET records == CsvRecords(csv_text, delimiter)
        fieldnames == Fieldnames(records)
        normalized_fieldnames == NormalizedFieldnames(fieldnames.v)
        missing_cols == MissingCols(normalized_fieldnames)
        col_map == [c \in RequiredCols |-> normalized_fieldnames[c]]
        loop == CsvLoop(fieldnames.v, col_map, DataRows(records), 2, <<>>, <<>>)
    IN IF Strip(csv_text) = <<>> THEN Raise("ValueError", Txt_CsvEmpty)
       ELSE IF ~fieldnames.some \/ fieldnames.v = <<>>
       THEN Raise("ValueError", Txt_NoHeaderRow)
       ELSE IF missing_cols # {}
       THEN Raise("ValueError",
                  Txt_MissingColumns \o Join(Txt_Comma, Sorted(missing_cols))
                  \o Txt_AvailableColumns
                  \o Join(Txt_Comma, Sorted(DOMAIN normalized_fieldnames)))
       ELSE IF ~loop.ok THEN loop
       ELSE IF loop.value.errors # <<>>
       THEN Raise("ValueError", Txt_CsvErrors \o Join(Txt_ErrorSep, loop.value.errors))
       ELSE IF loop.value.specs = <<>> THEN Raise("ValueError", Txt_NoValidIssues)
       ELSE Ok(loop.value.specs)

----------------------------------------------------------------------------
(* SpecId: identifier extraction applied to every record over the          *)
(* identifier fields, each field absent, empty or set.                     *)

IdFields == {"id", "teamId", "projectId", "templateId", "identifier"}

\* the value a field holds when it is set: "i", "t", "p", "m", "n"
IdValue(field) ==
    CASE field = "id" -> <<105>>
      [] field = "teamId" -> <<116>>
      [] field = "projectId" -> <<112>>
      [] field = "templateId" -> <<109>>
      [] OTHER -> <<110>>

IdRecords ==
    UNION { { [f \in present |-> IF f \in filled THEN IdValue(f) ELSE <<>>] :
                filled \in SUBSET present } :
            present \in SUBSET IdFields }

\* the rest of the world stands still while a pure function is applied
PureOnly ==
    /\ kind = "none"
    /\ FreshClient
    /\ IdleCaller
    /\ IdleBatch
    /\ IdleMatch

InitId ==
    /\ p_in \in [client : {"mcp", "base"}, record : IdRecords]
    /\ p_out = Pending
    /\ PureOnly
    /\ pc = "id"

\* _record_id(record) of mcp_client, LinearIdentifiers._extract_id(record)
\* of base_client
ApplyId ==
    /\ pc = "id"
    /\ p_out = Pending
    /\ p_out' = IF p_in.client = "mcp"
                THEN MCP_record_id(p_in.record)
                ELSE Base_extract_id(p_in.record)
    /\ UNCHANGED <<p_in, matchVars, clientVars, callerVars, batchVars, pc>>

NextId == ApplyId

SpecId == InitId /\ [][NextId]_vars

----------------------------------------------------------------------------
(* SpecText: parse_issue_spec applied to every block of up to MaxLines     *)
(* lines of the pool, alone or after the three headers.                    *)

\* "Team: B"
L_Team == <<84,101,97,109,58,32,66>>
\* "Project: P"
L_Project == <<80,114,111,106,101,99,116,58,32,80>>
\* "Template: S"
L_Template == <<84,101,109,112,108,97,116,101,58,32,83>>
\* "Title: X"
L_Title == <<84,105,116,108,101,58,32,88>>
\* "Summary:"
L_Summary == <<83,117,109,109,97,114,121,58>>
\* "Summary: s"
L_SummaryS == <<83,117,109,109,97,114,121,58,32,115>>
\* "a"
L_body == <<97>>
\* the blank line
L_blank == <<>>

TextLines == {L_Team, L_Project, L_Template, L_Title, L_Summary, L_SummaryS, L_body, L_blank}

\* the block of the lines, each ended by "\n"
RECURSIVE BlockOf(_)
BlockOf(lines) == IF lines = <<>> THEN <<>> ELSE Head(lines) \o NL \o BlockOf(Tail(lines))

\* a block starts with any line, or with the three headers in order
TextHeads == { <<>>, <<L_Team, L_Project, L_Title>> }

InitText ==
    /\ p_in \in { [lines |-> h \o ls, text |-> BlockOf(h \o ls)] :
                    h \in TextHeads,
                    ls \in UNION { [1..n -> TextLines] : n \in 1..MaxLines } }
    /\ p_out = Pending
    /\ PureOnly
    /\ pc = "text"

ApplyText ==
    /\ pc = "text"
    /\ p_out = Pending
    /\ p_out' = parse_issue_spec(p_in.text)
    /\ UNCHANGED <<p_in, matchVars, clientVars, callerVars, batchVars, pc>>

NextText == ApplyText

SpecText == InitText /\ [][NextText]_vars

----------------------------------------------------------------------------
(* SpecCsv: parse_csv_specs applied to every text of a header line and up  *)
(* to MaxRows data lines of the pools, with and without a leading          *)
(* byte-order mark.                                                        *)

\* U+FEFF
BOM == <<65279>>
\* ","
Comma == 44

\* "Team,Project,Title,Summary"
H_All == <<84,101,97,109,44,80,114,111,106,101,99,116,44,84,105,116,108,101,44,83,117,109,109,97,114,121>>
\* " team ,PROJECT,Title,Summary,Template"
H_Spaced == <<32,116,101,97,109,32,44,80,82,79,74,69,67,84,44,84,105,116,108,101,44,83,117,109,109,97,114,121,44,84,101,109,112,108,97,116,101>>
\* "Project,Title"
H_Two == <<80,114,111,106,101,99,116,44,84,105,116,108,101>>
\* no header line
H_blank == <<>>

CsvHeaders == {H_All, H_Spaced, H_Two, H_blank}

\* "B,P,X,s"
R_Valid == <<66,44,80,44,88,44,115>>
\* " C ,P,Y,t"
R_Spaced == <<32,67,32,44,80,44,89,44,116>>
\* ",,,"
R_Blank == <<44,44,44>>
\* "B,,X,s"
R_Partial == <<66,44,44,88,44,115>>
\* "B,P"
R_Short == <<66,44,80>>
\* ",,,,S"
R_OnlyTemplate == <<44,44,44,44,83>>
\* "B,P,X,s,S"
R_WithTemplate == <<66,44,80,44,88,44,115,44,83>>
\* an empty line
R_empty == <<>>

CsvRowLines == {R_Valid, R_Spaced, R_Blank, R_Partial, R_Short, R_OnlyTemplate,
                R_WithTemplate, R_empty}

CsvText(bom, header, rows) == (IF bom THEN BOM ELSE <<>>) \o BlockOf(<<header>> \o rows)

InitCsv ==
    /\ p_in \in { [bom |-> b, header |-> h, rows |-> rs, text |-> CsvText(b, h, rs)] :
                    b \in BOOLEAN, h \in CsvHeaders,
                    rs \in UNION { [1..n -> CsvRowLines] : n \in 0..MaxRows } }
    /\ p_out = Pending
    /\ PureOnly
    /\ pc = "csv"

ApplyCsv ==
    /\ pc = "csv"
    /\ p_out = Pending
    /\ p_out' = parse_csv_specs(p_in.text, Comma)
    /\ UNCHANGED <<p_in, matchVars, clientVars, callerVars, batchVars, pc>>

NextCsv == ApplyCsv

SpecCsv == InitCsv /\ [][NextCsv]_vars

----------------------------------------------------------------------------
(* SpecTemplate: _resolve_template applied to every list of up to          *)
(* MaxTemplates templates of the pool, for a name and a target team.       *)

S_m3 == <<109, 51>>
S_m4 == <<109, 52>>
S_m5 == <<109, 53>>
S_m7 == <<109, 55>>
S_m8 == <<109, 56>>
\* " story"
S_sp_story == <<32, 115, 116, 111, 114, 121>>
\* "STORY"
S_STORY == <<83, 84, 79, 82, 89>>
\* "Bug"
S_Bug == <<66, 117, 103>>
\* "Story "
S_Story_sp == <<83, 116, 111, 114, 121, 32>>

TemplatePool ==
    { [id |-> S_m1, name |-> S_Story, teamId |-> S_t1],
      [id |-> S_m2, name |-> S_story, teamId |-> S_t2],
      [id |-> S_m3, name |-> S_sp_story, teamId |-> S_t1],
      [id |-> S_m4, name |-> S_Bug, teamId |-> S_t1],
      [id |-> S_m5, name |-> S_Story],
      [name |-> S_story, teamId |-> S_t1],
      [id |-> S_m7, teamId |-> S_t1],
      [id |-> S_m8, name |-> S_STORY, teamId |-> S_t2] }

TemplateNames == {S_story, S_Story_sp, S_Bug}

\* a GraphQL client inside its session, with nothing cached or requested
FreshState == StateNow(None, <<>>, InitialProjects, 0, <<>>)

InitTemplate ==
    /\ p_in \in [templates : UNION { [1..n -> TemplatePool] : n \in 0..MaxTemplates },
                 name : TemplateNames, team : TeamIds, o : ListOutcomes]
    /\ p_out = Pending
    /\ PureOnly
    /\ pc = "template"

ApplyTemplate ==
    /\ pc = "template"
    /\ p_out = Pending
    /\ p_out' = GQL_resolve_template_from(p_in.templates, FreshState, p_in.name,
                                          p_in.team, p_in.o).res
    /\ UNCHANGED <<p_in, matchVars, clientVars, callerVars, batchVars, pc>>

NextTemplate == ApplyTemplate

SpecTemplate == InitTemplate /\ [][NextTemplate]_vars

----------------------------------------------------------------------------
(* SpecSession: one client of either kind, entered once, on which a caller *)
(* makes at most MaxCalls calls of resolve_identifiers and create_issue    *)
(* with any arguments, and which is then left.                             *)

\* team names a caller asks for: " be", "OPS", "zz"
TeamNames == { <<32, 98, 101>>, <<79, 80, 83>>, <<122, 122>> }

\* project names a caller asks for: "pay", "New", "new "
ProjectNames == { <<112, 97, 121>>, <<78, 101, 119>>, <<110, 101, 119, 32>> }

S_T == <<84>>
S_S == <<83>>

\* the issue a caller creates: an IssueSpec of parser.py, and one that also
\* carries the template attribute that LinearGraphQLClient.create_issue reads
IssuePool ==
    { [team |-> S_Be, project |-> S_Pay, title |-> S_T, summary |-> S_S],
      [team |-> S_Be, project |-> S_Pay, title |-> S_T, summary |-> S_S,
       template |-> S_story] }

InitSession ==
    /\ kind \in {"mcp", "graphql"}
    /\ FreshClient
    /\ IdleCaller
    /\ IdleBatch
    /\ IdleMatch
    /\ IdlePure
    /\ pc = "start"

\* async with client: __aenter__
SessionEnter ==
    /\ pc = "start"
    /\ \E o \in EnterOutcomes(kind) :
         LET e == Client_aenter(kind, o)
         IN /\ session' = e.session
            /\ transport' = e.transport
            /\ pc' = IF e.entered THEN "in" ELSE "done"
    /\ UNCHANGED <<kind, teams_cache, projects_cache, b_projects, b_issues, calls>>
    /\ UNCHANGED <<matchVars, pureVars, callerVars, batchVars>>

\* await client.resolve_identifiers(team, project, create_missing_projects=flag)
SessionResolve ==
    /\ pc = "in"
    /\ n_calls < MaxCalls
    /\ \E team \in TeamNames, project \in ProjectNames, flag \in BOOLEAN,
          oT \in OutcomesIf(~teams_cache.some, ListOutcomes),
          oP \in ListOutcomes :
       \E oC \in OutcomesIf(flag, CreateOutcomes) :
       \E r \in {Client_resolve_identifiers(kind, Here, team, project, flag, oT, oP, oC)} :
            /\ ClientBecomes(r.st)
            /\ resolved' = IF r.res.ok THEN Some(r.res.value) ELSE resolved
            /\ last' = [op |-> "resolve_identifiers", team |-> team, project |-> project,
                        flag |-> flag, res |-> r.res, first |-> Len(calls),
                        teams_before |-> teams_cache, cache_before |-> projects_cache,
                        b_before |-> b_projects]
    /\ n_calls' = n_calls + 1
    /\ UNCHANGED <<kind, session, transport, pc, matchVars, pureVars, batchVars>>

\* await client.create_issue(spec, identifiers), with identifiers a caller
\* got from resolve_identifiers
SessionCreateIssue ==
    /\ pc = "in"
    /\ n_calls < MaxCalls
    /\ resolved.some
    /\ \E spec \in IssuePool, o \in CreateOutcomes :
       \E oTpl \in OutcomesIf(kind = "graphql" /\ "template" \in DOMAIN spec,
                               ListOutcomes) :
       \E r \in {Client_create_issue(kind, Here, spec, resolved.v, oTpl, o)} :
            /\ ClientBecomes(r.st)
            /\ last' = [op |-> "create_issue", spec |-> spec, res |-> r.res,
                        first |-> Len(calls), ids |-> resolved.v,
                        teams_before |-> teams_cache, cache_before |-> projects_cache]
    /\ n_calls' = n_calls + 1
    /\ UNCHANGED <<kind, session, transport, pc, resolved, matchVars, pureVars, batchVars>>

\* leaving the async with block: __aexit__
SessionExit ==
    /\ pc = "in"
    /\ LET x == Client_aexit(kind, session, transport)
       IN /\ session' = x.session
          /\ transport' = x.transport
    /\ pc' = "done"
    /\ UNCHANGED <<kind, teams_cache, projects_cache, b_projects, b_issues, calls>>
    /\ UNCHANGED <<matchVars, pureVars, callerVars, batchVars>>

NextSession ==
    \/ SessionEnter
    \/ SessionResolve
    \/ SessionCreateIssue
    \/ SessionExit

SpecSession == InitSession /\ [][NextSession]_vars

----------------------------------------------------------------------------
(* Spec: the batch command of cli.py.  batch_csv parses the CSV into specs, *)
(* runs _run_batch on a LinearMCPClient and prints the summary.            *)

\* the parsed rows: IssueSpec strips team and project.  ("Be", "Pay"),
\* ("Be", "New") whose project does not exist, ("zz", "Pay") whose team does not
BatchPool ==
    { [team |-> S_Be, project |-> S_Pay, title |-> S_T, summary |-> S_S],
      [team |-> S_Be, project |-> <<78, 101, 119>>, title |-> S_T, summary |-> S_S],
      [team |-> <<122, 122>>, project |-> S_Pay, title |-> S_T, summary |-> S_S] }

BatchLists == UNION { [1..n -> BatchPool] : n \in 1..MaxSpecs }

\* issue.get("identifier", issue.get("id", "unknown"))
IssueId(issue) ==
    IF "identifier" \in DOMAIN issue THEN issue.identifier
    ELSE IF "id" \in DOMAIN issue THEN issue.id
    ELSE <<117, 110, 107, 110, 111, 119, 110>>

\* issue.get("title", "Untitled")
IssueTitle(issue) ==
    IF "title" \in DOMAIN issue THEN issue.title
    ELSE <<85, 110, 116, 105, 116, 108, 101, 100>>

\* created.append(issue); the position is a ghost
RecordCreated(created_issues, issue, i) ==
    Append(created_issues, [issue |-> issue, at |-> i])

\* the failure dropped instead of appended
RecordFailure_Drop(failed_issues, spec, error_msg, i) == failed_issues

\* failed.append((spec, error_msg)); the position is a ghost
RecordFailure(failed_issues, spec, error_msg, i) ==
    Append(failed_issues, [spec |-> spec, error |-> error_msg, at |-> i])

\* the handler raising whatever the option says
Reraises_Always(continue_on_error_) == TRUE

\* if not continue_on_error: raise
Reraises(continue_on_error_) == ~continue_on_error_

\* if failed_issues: raise typer.Exit(code=1)
ExitCode(failed_issues) == IF failed_issues # <<>> THEN 1 ELSE 0

\* the lines of the summary
SummaryLines(created_issues, failed_issues) ==
    << [line |-> "complete", created |-> Len(created_issues),
        failed |-> Len(failed_issues)] >>
    \o [k \in 1..Len(failed_issues) |->
          [line |-> "failed_issue", title |-> failed_issues[k].spec.title,
           error |-> failed_issues[k].error]]
    \o [k \in 1..Len(created_issues) |->
          [line |-> "created_issue", id |-> IssueId(created_issues[k].issue),
           title |-> IssueTitle(created_issues[k].issue)]]

Init ==
    /\ kind = "mcp"
    /\ FreshClient
    /\ IdleCaller
    /\ IdleMatch
    /\ IdlePure
    /\ specs \in BatchLists
    /\ continue_on_error \in BOOLEAN
    /\ progress \in BOOLEAN
    /\ idx = 0
    /\ created = <<>>
    /\ failed = <<>>
    /\ attempted = <<>>
    /\ returned = None
    /\ printed = <<>>
    /\ exit_code = None
    /\ pc = "start"

\* async with LinearMCPClient(config) as client.  An error of __aenter__ is
\* not a LinearMCPError: it leaves _run_batch and batch_csv uncaught, and
\* the process exits with status 1.
BatchEnter ==
    /\ pc = "start"
    /\ \E o \in EnterOutcomes(kind) :
         LET e == Client_aenter(kind, o)
         IN /\ session' = e.session
            /\ transport' = e.transport
            /\ pc' = IF e.entered THEN "loop" ELSE "done"
            /\ exit_code' = IF e.entered THEN exit_code ELSE Some(1)
    /\ UNCHANGED <<kind, teams_cache, projects_cache, b_projects, b_issues, calls>>
    /\ UNCHANGED <<specs, continue_on_error, progress, idx, created, failed,
                   attempted, returned, printed>>
    /\ UNCHANGED <<matchVars, pureVars, callerVars>>

\* one iteration of the loop, for specs[idx + 1].  When the handler raises
\* again, the error leaves the async with block (__aexit__), _run_batch and
\* anyio.run, and batch_csv prints it and exits with status 1: created and
\* failed are left as the locals were when the frame was dropped.
BatchStep ==
    /\ pc = "loop"
    /\ idx < Len(specs)
    /\ \E oT \in OutcomesIf(~teams_cache.some, ListOutcomes),
          oP \in ListOutcomes, oI \in CreateOutcomes :
       \E ids \in {MCP_resolve_identifiers(Here, specs[idx + 1].team,
                                             specs[idx + 1].project, FALSE, oT, oP, "ok")} :
       \E issue \in {IF ids.res.ok
                     THEN MCP_create_issue(ids.st, specs[idx + 1], ids.res.value, oI)
                     ELSE ids} :
         LET i == idx + 1
             spec == specs[i]
             caught == ~issue.res.ok /\ issue.res.error = "LinearMCPError"
             leaves == ~issue.res.ok /\ (~caught \/ Reraises(continue_on_error))
             x == Client_aexit(kind, session, transport)
             lines ==
                 (IF progress THEN << [line |-> "creating", at |-> i, title |-> spec.title] >>
                  ELSE <<>>)
                 \o (IF progress /\ issue.res.ok
                     THEN << [line |-> "created", id |-> IssueId(issue.res.value)] >>
                     ELSE <<>>)
                 \o (IF progress /\ caught
                     THEN << [line |-> "failed", error |-> issue.res.text] >>
                     ELSE <<>>)
                 \o (IF leaves /\ caught
                     THEN << [line |-> "stopped", error |-> issue.res.text] >>
                     ELSE <<>>)
         IN /\ ClientBecomes(issue.st)
            /\ attempted' = Append(attempted, [at |-> i, res |-> issue.res])
            /\ created' = IF issue.res.ok
                          THEN RecordCreated(created, issue.res.value, i)
                          ELSE created
            /\ failed' = IF caught
                         THEN RecordFailure(failed, spec, issue.res.text, i)
                         ELSE failed
            /\ printed' = printed \o lines
            /\ IF leaves
               THEN /\ session' = x.session
                    /\ transport' = x.transport
                    /\ exit_code' = Some(1)
                    /\ pc' = "done"
               ELSE /\ UNCHANGED <<session, transport, exit_code>>
                    /\ pc' = "loop"
    /\ idx' = idx + 1
    /\ UNCHANGED <<kind, specs, continue_on_error, progress, returned>>
    /\ UNCHANGED <<matchVars, pureVars, callerVars>>

\* the loop is over: the async with block is left and _run_batch returns
BatchReturn ==
    /\ pc = "loop"
    /\ idx = Len(specs)
    /\ LET x == Client_aexit(kind, session, transport)
       IN /\ session' = x.session
          /\ transport' = x.transport
    /\ returned' = Some([created |-> created, failed |-> failed])
    /\ pc' = "summary"
    /\ UNCHANGED <<kind, teams_cache, projects_cache, b_projects, b_issues, calls>>
    /\ UNCHANGED <<specs, continue_on_error, progress, idx, created, failed,
                   attempted, printed, exit_code>>
    /\ UNCHANGED <<matchVars, pureVars, callerVars>>

\* batch_csv prints the summary of what _run_batch returned and exits
BatchSummary ==
    /\ pc = "summary"
    /\ printed' = printed \o SummaryLines(returned.v.created, returned.v.failed)
    /\ exit_code' = Some(ExitCode(returned.v.failed))
    /\ pc' = "done"
    /\ UNCHANGED <<clientVars, matchVars, pureVars, callerVars>>
    /\ UNCHANGED <<specs, continue_on_error, progress, idx, created, failed,
                   attempted, returned>>

Next ==
    \/ BatchEnter
    \/ BatchStep
    \/ BatchReturn
    \/ BatchSummary

Spec == Init /\ [][Next]_vars

----------------------------------------------------------------------------
(* Claims about _match_record, checked under SpecMatch.                    *)

\* the claim's normalisation, stated without the loops of the model:
\* the part between the first and the last non-space character, lower-cased
Trimmed(s) ==
    LET solid == {i \in 1..Len(s) : ~IsSpace(s[i])}
    IN IF solid = {} THEN <<>>
       ELSE SubSeq(s, CHOOSE i \in solid : \A j \in solid : i <= j,
                      CHOOSE i \in solid : \A j \in solid : j <= i)

Normalised(s) == [i \in 1..Len(Trimmed(s)) |-> LowerChar(Trimmed(s)[i])]

LabelSet == {"name", "title", "key", "slug"}

\* the record has a label equal to the name under the normalisation
MatchesName(record, name) ==
    \E f \in LabelSet \cap DOMAIN record : Normalised(record[f]) = Normalised(name)

MatchingPositions == {i \in 1..Len(m_records) : MatchesName(m_records[i], m_expected)}

DomainErrorOf(c) == IF c = "mcp" THEN "LinearMCPError" ELSE "LinearGraphQLError"

\* C9: matching is case-insensitive and whitespace-trimmed on both sides;
\* _match_record returns the first record, in list order, one of whose name,
\* title, key, slug equals the expected name after trimming and lower-casing,
\* and it fails only when no record of the list matches.
C9_MatchFirstNormalised ==
    m_result # Pending =>
        IF MatchingPositions = {}
        THEN ~m_result.ok
        ELSE /\ m_result.ok
             /\ m_result.value =
                    m_records[CHOOSE i \in MatchingPositions :
                                 \A j \in MatchingPositions : i <= j]

\* C9 witness: the second record is returned, through a label that differs
\* from the requested name in case and surrounding whitespace, after a first
\* record that has labels but does not match.
C9_Witness ==
    /\ m_result # Pending
    /\ m_result.ok
    /\ Len(m_records) = 2
    /\ m_records[1] # m_records[2]
    /\ HasLabel(m_records[1])
    /\ m_result.value = m_records[2]
    /\ m_expected = <<65, 32>>
    /\ \A f \in LabelSet \cap DOMAIN m_records[2] :
          m_records[2][f] \in {<<>>, <<32, 97>>}

\* the text of the not-found message for a list of available labels
NotFoundMessage(listed) ==
    Txt_CouldNotFind \o m_label \o <<32, 39>> \o m_expected
        \o <<39, 46, 32>> \o <<65,118,97,105,108,97,98,108,101,32,111,112,116,105,111,110,115,58,32>>
        \o Join(<<44, 32>>, listed)

\* the strictly increasing sequence that enumerates the set S of strings
InOrder(S) ==
    CHOOSE q \in [1..Cardinality(S) -> S] :
        \A i \in 1..(Cardinality(S) - 1) : StrLess(q[i], q[i + 1])

\* every non-empty name, title, key and slug value of the candidates
AllLabelValues ==
    UNION { {m_records[i][f] : f \in {g \in LabelSet \cap DOMAIN m_records[i] :
                                        m_records[i][g] # <<>>}} :
            i \in 1..Len(m_records) }

\* a labelled record's first non-empty value in the order name, title, key, slug
FirstLabelOf(record) ==
    LET at == {k \in 1..4 : LabelKeys[k] \in DOMAIN record /\ record[LabelKeys[k]] # <<>>}
    IN record[LabelKeys[CHOOSE k \in at : \A l \in at : k <= l]]

FirstLabelValues ==
    {FirstLabelOf(m_records[i]) :
        i \in {j \in 1..Len(m_records) :
                 \E f \in LabelSet \cap DOMAIN m_records[j] : m_records[j][f] # <<>>}}

\* C10 as stated: on no match the message holds the requested name and
\* enumerates, sorted, every distinct non-empty name, title, key and slug
\* value found across all candidate records.
C10_AsStated ==
    (m_result # Pending /\ ~m_result.ok) =>
        /\ m_result.error = DomainErrorOf(m_client)
        /\ m_result.text = NotFoundMessage(InOrder(AllLabelValues))

\* C10 amended: on no match the message holds the requested name and
\* enumerates, sorted and without repetition, one label per labelled candidate:
\* the first non-empty of its name, title, key, slug; so with a labelled
\* candidate the message holds at least one available label.
C10_ListsFirstLabels ==
    (m_result # Pending /\ ~m_result.ok) =>
        /\ m_result.error = DomainErrorOf(m_client)
        /\ m_result.text = NotFoundMessage(InOrder(FirstLabelValues))
        /\ Contains(m_result.text, m_expected)
        /\ AllLabelValues # {} =>
              \E v \in AllLabelValues :
                  Contains(Join(<<44, 32>>, InOrder(FirstLabelValues)), v)

\* C10 witness: a failed match over two labelled records whose display
\* labels are listed in sorted order, not in list order, while a second label
\* of one of them is not listed.
C10_Witness ==
    /\ m_result # Pending
    /\ ~m_result.ok
    /\ Len(m_records) = 2
    /\ Cardinality(FirstLabelValues) = 2
    /\ StrLess(FirstLabelOf(m_records[2]), FirstLabelOf(m_records[1]))
    /\ AllLabelValues # FirstLabelValues

----------------------------------------------------------------------------
(* Claims about the caches and project auto-creation, checked under        *)
(* SpecSession on the ghost log of backend requests.                       *)

\* the positions of the workspace's teams that a team name matches
TeamPositions(name) ==
    {i \in 1..Len(BackendTeams) : MatchesName(BackendTeams[i], name)}

\* the team a name resolves to: the first it matches
TeamFor(name) ==
    BackendTeams[CHOOSE i \in TeamPositions(name) : \A j \in TeamPositions(name) : i <= j]

\* some record of the list matches the name
Listed(records, name) == \E k \in 1..Len(records) : MatchesName(records[k], name)

IsList(r) == r.op \in {"list_teams", "list_projects"}
IsCreate(r) == r.op = "create_project"

\* what a list request is for: the team list, or one team's project list
ListKey(r) == <<r.op, r.team>>

\* what a creation is for: the team and the normalised project name
CreateKey(r) == <<r.team, Normalised(r.name)>>

\* the answer gave the client a list it accepts: the request was answered, and
\* the MCP client takes no list without an object in it
Accepted(r) == r.ok /\ (kind = "graphql" \/ r.items > 0)

\* the requests the last call made
NewRequests == IF last.op = "none" THEN {} ELSE (last.first + 1)..Len(calls)

LastResolve == last.op = "resolve_identifiers"

\* C5 as stated: within one client session the backend list-teams operation
\* is invoked at most once and the list-projects operation at most once per
\* team identifier.
C5_AsStated ==
    \A i \in 1..Len(calls), j \in 1..Len(calls) :
        (i < j /\ IsList(calls[i]) /\ IsList(calls[j])) =>
            ListKey(calls[i]) # ListKey(calls[j])

\* C5 amended: a list operation is invoked again for the same key (the team
\* list, or one team's project list) only when no earlier invocation for that
\* key gave the client a list it accepts (the request failed, or the MCP
\* client was answered an empty list); an accepted list is cached, the caches
\* hold nothing else, and a lookup whose key is cached invokes no list
\* operation for it.
C5_RefetchOnlyUntilCached ==
    /\ \A i \in 1..Len(calls), j \in 1..Len(calls) :
          (i < j /\ IsList(calls[i]) /\ IsList(calls[j])
                 /\ ListKey(calls[i]) = ListKey(calls[j])) => ~Accepted(calls[i])
    /\ teams_cache.some <=>
          \E i \in 1..Len(calls) : calls[i].op = "list_teams" /\ Accepted(calls[i])
    /\ \A t \in TeamIds :
          t \in DOMAIN projects_cache <=>
              \E i \in 1..Len(calls) :
                  calls[i].op = "list_projects" /\ calls[i].team = t /\ Accepted(calls[i])
    /\ LastResolve =>
          /\ last.teams_before.some =>
                \A k \in NewRequests : calls[k].op # "list_teams"
          /\ \A k \in NewRequests :
                calls[k].op = "list_projects" => calls[k].team \notin DOMAIN last.cache_before

\* C5 witness: a project list request that failed, the same request made
\* again and accepted, and then a resolve served from the caches alone.
C5_Witness ==
    /\ LastResolve
    /\ last.res.ok
    /\ last.first = Len(calls)
    /\ \E i \in 1..Len(calls), j \in 1..Len(calls) :
          /\ i < j
          /\ calls[i].op = "list_projects"
          /\ calls[j].op = "list_projects"
          /\ calls[i].team = calls[j].team
          /\ ~calls[i].ok
          /\ Accepted(calls[j])

\* the workspace had no project of that team under that name at the start
AbsentAtStart(r) == ~Listed(InitialProjects[r.team], r.name)

CreatedEarlier(i) ==
    /\ i <= last.first
    /\ IsCreate(calls[i])
    /\ calls[i].ok
    /\ AbsentAtStart(calls[i])
    /\ TeamPositions(last.team) # {}
    /\ CreateKey(calls[i]) = <<TeamFor(last.team).id, Normalised(last.project)>>

MissingProject ==
    /\ LastResolve
    /\ TeamPositions(last.team) # {}
    /\ ~Listed(last.b_before[TeamFor(last.team).id], last.project)

\* C6 as stated: resolve_identifiers with create_missing_projects=True on a
\* resolvable team whose project list (an empty list included) holds no match
\* invokes create-project with the name, the team identifier and the default
\* colour, appends the returned record to the team's cache entry and returns
\* it; stated for the calls whose backend requests were all answered.
C6_AsStated ==
    (MissingProject /\ last.flag /\ \A k \in NewRequests : calls[k].ok) =>
        LET t == TeamFor(last.team).id
            before == IF t \in DOMAIN last.cache_before
                      THEN last.cache_before[t] ELSE last.b_before[t]
        IN /\ \E k \in NewRequests :
                 /\ IsCreate(calls[k])
                 /\ calls[k].name = last.project
                 /\ calls[k].team = t
                 /\ calls[k].color = DefaultColor
           /\ last.res.ok
           /\ last.res.value.project = b_projects[t][Len(b_projects[t])]
           /\ t \in DOMAIN projects_cache
           /\ projects_cache[t] = Append(before, last.res.value.project)

\* C7: create-project is requested only when the team was resolved, the
\* project name matched no record of that team's project list and the flag is
\* true; an unresolvable team fails with the domain error whatever the flag
\* and nothing is created; an unresolvable project with the flag false fails
\* with the domain error without a create request; a create request that the
\* backend rejects fails with the domain error.
C7_AsStated ==
    LastResolve =>
        /\ \A k \in NewRequests :
              IsCreate(calls[k]) =>
                  /\ MissingProject
                  /\ last.flag
                  /\ calls[k].team = TeamFor(last.team).id
        /\ TeamPositions(last.team) = {} =>
              /\ ~last.res.ok
              /\ last.res.error = DomainErrorOf(kind)
              /\ \A k \in NewRequests : ~IsCreate(calls[k])
              /\ b_projects = last.b_before
        /\ (MissingProject /\ ~last.flag) =>
              /\ ~last.res.ok
              /\ last.res.error = DomainErrorOf(kind)
              /\ \A k \in NewRequests : ~IsCreate(calls[k])
              /\ b_projects = last.b_before
        /\ \A k \in NewRequests :
              (IsCreate(calls[k]) /\ ~calls[k].ok) =>
                  /\ ~last.res.ok
                  /\ last.res.error = DomainErrorOf(kind)
                  /\ b_projects = last.b_before

\* the last call was create_issue
LastCreateIssue == last.op = "create_issue"

IsCreateIssue(r) == r.op = "create_issue"

\* C12: create_issue fails with the client's domain error whenever the
\* backend did not answer the creation with the created issue (it reported a
\* failure, or answered without the issue), and what it returns is the issue
\* the backend created on a successful answer.
C12_AsStated ==
    LastCreateIssue =>
        /\ \A k \in NewRequests :
              (IsCreateIssue(calls[k]) /\ ~calls[k].ok) =>
                  /\ ~last.res.ok
                  /\ last.res.error = DomainErrorOf(kind)
        /\ last.res.ok =>
              /\ \E k \in NewRequests : IsCreateIssue(calls[k]) /\ calls[k].ok
              /\ last.res.value = CreatedIssue(b_issues, last.spec.title)

\* C13: GraphQL create_issue always submits the issue-creation request; the
\* request carries a templateId only when the spec carries a template name,
\* and a spec without a template is submitted without templateId.
C13_AsStated ==
    (LastCreateIssue /\ kind = "graphql") =>
        \E k \in NewRequests :
            /\ IsCreateIssue(calls[k])
            /\ calls[k].template # <<>> => "template" \in DOMAIN last.spec
            /\ "template" \notin DOMAIN last.spec => calls[k].template = <<>>

----------------------------------------------------------------------------
(* Claims about the batch command, checked under Spec.                     *)

Failures == {k \in 1..Len(attempted) : ~attempted[k].res.ok}

\* every spec was attempted, in input order
AttemptedAll ==
    /\ Len(attempted) = Len(specs)
    /\ \A k \in 1..Len(attempted) : attempted[k].at = k

\* the failed list holds, for each failed attempt and for nothing else, the
\* spec and the text of the error
FailuresRecorded ==
    /\ \A k \in Failures :
          \E j \in 1..Len(failed) :
              failed[j] = [spec |-> specs[attempted[k].at],
                           error |-> attempted[k].res.text, at |-> attempted[k].at]
    /\ \A j \in 1..Len(failed) : \E k \in Failures : attempted[k].at = failed[j].at

\* the issue reached the caller: in what _run_batch returned, or in a line
\* the command printed
Reported(c) ==
    \/ returned.some /\ \E j \in 1..Len(returned.v.created) : returned.v.created[j] = c
    \/ \E l \in 1..Len(printed) :
          /\ printed[l].line \in {"created", "created_issue"}
          /\ printed[l].id = IssueId(c.issue)

\* C1 as stated: under stop-on-first-error the first spec that fails ends the
\* run: no later spec is resolved or created, the issues created before the
\* failure are retained and reported in the run's result, and the process
\* exits non-zero.
C1_AsStated ==
    (pc = "done" /\ ~continue_on_error /\ Failures # {}) =>
        /\ \A k \in Failures : k = Len(attempted)
        /\ \A j \in 1..Len(created) : Reported(created[j])
        /\ exit_code = Some(1)

\* C2 as stated: with continue-on-error every spec is attempted in input
\* order, each failure is recorded with its spec and error message, and the
\* process exits non-zero if and only if at least one spec failed.
C2_AsStated ==
    (pc = "done" /\ continue_on_error) =>
        /\ AttemptedAll
        /\ FailuresRecorded
        /\ exit_code.some
        /\ exit_code.v # 0 <=> failed # <<>>

\* C2 amended: with continue-on-error, a run whose client session was
\* established attempts every spec in input order whatever failed before,
\* records each failure with its spec and error message, and exits non-zero if
\* and only if at least one spec failed; a run whose session could not be
\* established attempts no spec, records no failure and exits non-zero.
C2_ContinueOnError ==
    (pc = "done" /\ continue_on_error) =>
        IF returned.some
        THEN /\ AttemptedAll
             /\ FailuresRecorded
             /\ exit_code.some
             /\ exit_code.v # 0 <=> failed # <<>>
        ELSE /\ attempted = <<>>
             /\ failed = <<>>
             /\ exit_code = Some(1)

\* C2 witness: a finished run of three specs with continue-on-error in which
\* the first spec failed and a later one was created.
C2_Witness ==
    /\ pc = "done"
    /\ continue_on_error
    /\ Len(specs) = 3
    /\ 1 \in Failures
    /\ \E j \in 1..Len(created) : created[j].at > 1
    /\ exit_code = Some(1)

\* how many entries of a list of outcomes are for position k
EntriesFor(list, k) == Cardinality({j \in 1..Len(list) : list[j].at = k})

\* the positions of a list of outcomes increase
Increasing(list) ==
    \A i \in 1..Len(list), j \in 1..Len(list) : i < j => list[i].at < list[j].at

C8_AsStated ==
    pc = "done" => transport # "open"

----------------------------------------------------------------------------
(* Claims about identifier extraction, checked under SpecId.               *)

\* the first field of the order that the record holds with a non-empty value
Preferred(record, order) ==
    LET at == {k \in 1..Len(order) : order[k] \in DOMAIN record /\ record[order[k]] # <<>>}
    IN IF at = {} THEN None
       ELSE Some(record[order[CHOOSE k \in at : \A l \in at : k <= l]])

\* the result is the preferred value of the order, or a failure without one
Extracts(order) ==
    IF Preferred(p_in.record, order).some
    THEN p_out = Ok(Preferred(p_in.record, order).v)
    ELSE ~p_out.ok

\* C11 as stated: in both implementations identifier extraction returns the
\* first present, non-empty value among id, teamId, projectId, identifier, in
\* that order, and fails on a record with none of them.
C11_AsStated ==
    (pc = "id" /\ p_out # Pending) =>
        Extracts(<<"id", "teamId", "projectId", "identifier">>)

\* C11 amended: LinearIdentifiers._extract_id of the base client returns the
\* first present, non-empty value among id, teamId, projectId, identifier and
\* fails with ValueError without one; _record_id of the MCP client also
\* accepts templateId, preferred after projectId and before identifier, and
\* fails with LinearMCPError without one.
C11_PreferenceOrders ==
    (pc = "id" /\ p_out # Pending) =>
        IF p_in.client = "mcp"
        THEN /\ Extracts(<<"id", "teamId", "projectId", "templateId", "identifier">>)
             /\ ~p_out.ok => p_out.error = "LinearMCPError"
        ELSE /\ Extracts(<<"id", "teamId", "projectId", "identifier">>)
             /\ ~p_out.ok => p_out.error = "ValueError"

\* C11 witness: _record_id on a record that holds templateId and identifier,
\* and an empty id, returned the templateId.
C11_Witness ==
    /\ pc = "id"
    /\ p_out # Pending
    /\ p_in.client = "mcp"
    /\ DOMAIN p_in.record = {"id", "templateId", "identifier"}
    /\ p_in.record.id = <<>>
    /\ p_in.record.identifier # <<>>
    /\ p_out = Ok(IdValue("templateId"))

----------------------------------------------------------------------------
(* Claims about parse_issue_spec, checked under SpecText.                  *)

Parsed == pc = "text" /\ p_out # Pending

\* the line, trimmed, starts with the header name and a colon, in any case
IsHeaderLine(line, name) ==
    LET s == Strip(line)
    IN Len(s) > Len(name) /\ Lower(SubSeq(s, 1, Len(name) + 1)) = Lower(name) \o <<58>>

HeaderLines(name) == {k \in 1..Len(p_in.lines) : IsHeaderLine(p_in.lines[k], name)}

\* the lines without line k
Without(lines, k) == SubSeq(lines, 1, k - 1) \o SubSeq(lines, k + 1, Len(lines))

\* the block has one Template header, before any Summary header, and is a
\* block that parses once that line is taken out
TemplateCase(k) ==
    /\ HeaderLines(Txt_Template) = {k}
    /\ \A j \in HeaderLines(Txt_Summary) : k < j
    /\ parse_issue_spec(BlockOf(Without(p_in.lines, k))).ok

\* C14: a text block with a Template header before Summary parses, and the
\* specification carries the trimmed value as its template.
C14_AsStated ==
    Parsed =>
        \A k \in 1..Len(p_in.lines) :
            TemplateCase(k) =>
                /\ p_out.ok
                /\ "template" \in DOMAIN p_out.value
                /\ p_out.value.template = HeaderMatch(Strip(p_in.lines[k])).v.value

\* C15: every non-empty block without a Summary header line fails with a
\* ValueError whose message contains the word Summary.
C15_AsStated ==
    (Parsed /\ Strip(p_in.text) # <<>> /\ HeaderLines(Txt_Summary) = {}) =>
        /\ ~p_out.ok
        /\ p_out.error \in ValueErrors
        /\ Contains(p_out.text, Txt_Summary)

----------------------------------------------------------------------------
(* Claims about parse_csv_specs, checked under SpecCsv.                    *)

CsvParsed == pc = "csv" /\ p_out # Pending

\* the cells of a line of the input
CellsOf(line) == IF line = <<>> THEN <<>> ELSE Fields(line, Comma)

\* the header's column names, trimmed and lower-cased: of the header line,
\* and of the first line as the text has it, a byte-order mark included
NamesOf(line) == {Lower(Strip(CellsOf(line)[k])) : k \in 1..Len(CellsOf(line))}
HeaderNames == NamesOf(p_in.header)
FirstLineNames == NamesOf((IF p_in.bom THEN BOM ELSE <<>>) \o p_in.header)

\* the field of data line k under the required column c, None without a cell
FieldOf(k, c) ==
    LET header == CellsOf(p_in.header)
        col == CHOOSE j \in 1..Len(header) : Lower(Strip(header[j])) = c
        cells == CellsOf(p_in.rows[k])
    IN IF col <= Len(cells) THEN Some(Strip(cells[col])) ELSE None

DataLines == {k \in 1..Len(p_in.rows) : p_in.rows[k] # <<>>}

\* the four required fields of the line are there and non-empty after trimming
ValidRow(k) ==
    /\ k \in DataLines
    /\ RequiredCols \subseteq HeaderNames
    /\ \A c \in RequiredCols : FieldOf(k, c).some /\ FieldOf(k, c).v # <<>>

\* the four required fields of the line are there and empty after trimming
BlankRow(k) ==
    /\ k \in DataLines
    /\ RequiredCols \subseteq HeaderNames
    /\ \A c \in RequiredCols : FieldOf(k, c).some /\ FieldOf(k, c).v = <<>>

\* a line that is neither: a required field is empty or has no cell
FailingRow(k) ==
    /\ k \in DataLines
    /\ RequiredCols \subseteq HeaderNames
    /\ ~ValidRow(k)
    /\ ~BlankRow(k)

SpecOfRow(k) ==
    [team |-> FieldOf(k, Txt_team).v, project |-> FieldOf(k, Txt_project).v,
     title |-> FieldOf(k, Txt_title).v, summary |-> FieldOf(k, Txt_summary).v]

\* one specification per valid line, in input order
ValidSpecs ==
    LET at == SelectSeq([k \in 1..Len(p_in.rows) |-> k], ValidRow)
    IN [j \in 1..Len(at) |-> SpecOfRow(at[j])]

\* the number of data line k: the header is row 1, empty lines are no rows
RowNumber(k) == 1 + Cardinality({j \in DataLines : j <= k})

\* "Row <n>:"
RowLabel(k) == Txt_Row \o Decimal(RowNumber(k)) \o <<58>>

\* C16: when the four required columns are present and at least one data row
\* has its four required fields non-empty after trimming, the parse succeeds
\* and returns one specification per valid row, in input order.
C16_AsStated ==
    (CsvParsed /\ RequiredCols \subseteq HeaderNames
        /\ \E k \in 1..Len(p_in.rows) : ValidRow(k)) =>
        /\ p_out.ok
        /\ p_out.value = ValidSpecs

\* C17: a data row whose four required fields are all empty after trimming,
\* whatever its other cells hold, is skipped silently: a successful parse
\* returns the specifications of the valid rows only, and a failed parse has
\* no entry for the row in its message.
C17_BlankRowsSkipped ==
    CsvParsed =>
        \A k \in 1..Len(p_in.rows) :
            BlankRow(k) =>
                /\ p_out.ok => p_out.value = ValidSpecs
                /\ ~p_out.ok => ~Contains(p_out.text, RowLabel(k))

\* C17 witness: a parse that succeeded with one specification on a text of a
\* row of four empty cells, a row with only the Template cell filled and one
\* valid row.
C17_Witness ==
    /\ CsvParsed
    /\ p_out.ok
    /\ Len(p_out.value) = 1
    /\ Len(p_in.rows) = 3
    /\ \E k \in 1..3 : BlankRow(k) /\ p_in.rows[k] = R_Blank
    /\ \E k \in 1..3 : BlankRow(k) /\ p_in.rows[k] = R_OnlyTemplate

\* the text starts with the prefix
StartsWith(text, prefix) ==
    Len(text) >= Len(prefix) /\ SubSeq(text, 1, Len(prefix)) = prefix

\* C18: a text whose header row lacks a required column, the names compared
\* after trimming and lower-casing, fails before any data row is processed,
\* with a message that names every missing column and lists the available
\* ones.
C18_MissingColumnsNamed ==
    (CsvParsed /\ p_in.header # <<>> /\ ~(RequiredCols \subseteq FirstLineNames)) =>
        /\ ~p_out.ok
        /\ p_out.error = "ValueError"
        /\ StartsWith(p_out.text, Txt_MissingColumns)
        /\ \A c \in RequiredCols \ FirstLineNames : Contains(p_out.text, c)
        /\ \A a \in FirstLineNames : Contains(p_out.text, Txt_AvailableColumns) /\ Contains(p_out.text, a)
        /\ ~Contains(p_out.text, Txt_Row)

\* C18 witness: the header Project,Title over a row that is too short failed
\* naming summary and team.
C18_Witness ==
    /\ CsvParsed
    /\ ~p_in.bom
    /\ p_in.header = H_Two
    /\ \E k \in 1..Len(p_in.rows) : p_in.rows[k] = R_Short
    /\ ~p_out.ok
    /\ Contains(p_out.text, Txt_summary \o Txt_Comma \o Txt_team)

\* C19: when a data row fails validation the parse fails with one ValueError
\* whose message has an entry for every failing row, under the row's number
\* (the header is row 1, skipped blank rows are counted).
C19_AsStated ==
    (CsvParsed /\ RequiredCols \subseteq FirstLineNames
        /\ \E k \in 1..Len(p_in.rows) : FailingRow(k)) =>
        /\ ~p_out.ok
        /\ p_out.error \in ValueErrors
        /\ \A k \in 1..Len(p_in.rows) : FailingRow(k) => Contains(p_out.text, RowLabel(k))

\* C20: a text that begins with a byte-order mark parses to what the same
\* text without the mark parses to.
C20_AsStated ==
    (CsvParsed /\ p_in.bom) =>
        p_out = parse_csv_specs(CsvText(FALSE, p_in.header, p_in.rows), Comma)

----------------------------------------------------------------------------
(* Claims about the parsers and matchers as a whole.                       *)

\* what the other client's _match_record gives on the same arguments
OtherMatch ==
    IF m_client = "mcp"
    THEN GQL_match_record(m_records, m_expected, m_label)
    ELSE MCP_match_record(m_records, m_expected, m_label)

\* C26: on every record list and expected name the two clients'
\* _match_record return the same record, or both fail with messages of the
\* same text and differ only in the error class.
C26_MatchersEquivalent ==
    (pc = "match" /\ m_result # Pending) =>
        IF m_result.ok
        THEN OtherMatch = m_result
        ELSE /\ ~OtherMatch.ok
             /\ OtherMatch.text = m_result.text
             /\ {OtherMatch.error, m_result.error} = {"LinearMCPError", "LinearGraphQLError"}

\* C26 witness: the GraphQL matcher returned the second record of a list for
\* a name given in another case and with trailing whitespace.
C26_Witness ==
    /\ pc = "match"
    /\ m_result # Pending
    /\ m_client = "graphql"
    /\ m_expected = <<65, 32>>
    /\ Len(m_records) = 2
    /\ m_result = Ok(m_records[2])
    /\ m_records[1] # m_records[2]

\* C27: parse_csv_specs returns a non-empty list of valid specifications or
\* raises ValueError, whatever the number of cells of the data rows; it
\* fails with no other exception type.
C27_AsStated ==
    CsvParsed =>
        IF p_out.ok
        THEN /\ p_out.value # <<>>
             /\ \A k \in 1..Len(p_out.value) :
                   \A f \in DOMAIN p_out.value[k] : p_out.value[k][f] # <<>>
        ELSE p_out.error \in ValueErrors

\* the first Summary header line of the block, 0 without one
FirstSummary ==
    LET at == HeaderLines(Txt_Summary)
    IN IF at = {} THEN 0 ELSE CHOOSE k \in at : \A j \in at : k <= j

\* the lines before line `first`: all of them when it is 0
PreLines(first) == IF first = 0 THEN 1..Len(p_in.lines) ELSE 1..(first - 1)

\* the recognised headers each line is a header line of
HeaderOf ==
    [k \in 1..Len(p_in.lines) |->
        {n \in {Txt_team, Txt_project, Txt_title} : IsHeaderLine(p_in.lines[k], n)}]

\* what follows the colon of a header line of the name
HeaderValue(line, name) ==
    LStrip(SubSeq(Strip(line), Len(name) + 2, Len(Strip(line))))

\* blank, or the first occurrence of a recognised header
Acceptable(headers, k) ==
    \/ Strip(p_in.lines[k]) = <<>>
    \/ /\ headers[k] # {}
       /\ \A j \in 1..(k - 1) : headers[j] \cap headers[k] = {}

\* the message of an error raised on a line
LineError(text) ==
    \/ StartsWith(text, Txt_UnknownHeader)
    \/ StartsWith(text, Txt_DuplicateHeader)
    \/ StartsWith(text, Txt_Unexpected)

\* the value on the Summary header line `first`, if it has one, and every
\* line after it
SummaryBody(first) ==
    LET v == HeaderValue(p_in.lines[first], Txt_Summary)
    IN (IF v # <<>> THEN <<v>> ELSE <<>>)
       \o SubSeq(p_in.lines, first + 1, Len(p_in.lines))

\* each of team, project and title has a header line with a value among the
\* lines
HeadersComplete(headers, lines) ==
    \A n \in {Txt_team, Txt_project, Txt_title} :
        \E k \in lines : n \in headers[k] /\ HeaderValue(p_in.lines[k], n) # <<>>

----------------------------------------------------------------------------
(* Claims about _resolve_template, checked under SpecTemplate.             *)

TemplateLooked == pc = "template" /\ p_out # Pending

TemplateName(t) == IF "name" \in DOMAIN t THEN t.name ELSE <<>>

\* the templates of the list whose name is the requested one under a
\* normalisation, and those of them associated with the target team
NameMatches(Norm(_)) ==
    {k \in 1..Len(p_in.templates) :
        Norm(TemplateName(p_in.templates[k])) = Norm(p_in.name)}
TeamMatches(Norm(_)) ==
    {k \in NameMatches(Norm) :
        "teamId" \in DOMAIN p_in.templates[k] /\ p_in.templates[k].teamId = p_in.team}

FirstOf(S) == CHOOSE k \in S : \A l \in S : k <= l

\* found with the template's id
FoundAt(k) == "id" \in DOMAIN p_in.templates[k] /\ p_out = Some(p_in.templates[k].id)

\* C23 as stated: among the templates whose name equals the requested name
\* case-insensitively the lookup returns the identifier of one associated
\* with the target team if any exists, otherwise that of the first name
\* match, otherwise not found; a backend error gives not found.
C23_AsStated ==
    TemplateLooked =>
        IF p_in.o # "ok" THEN p_out = None
        ELSE IF TeamMatches(Lower) # {} THEN \E k \in TeamMatches(Lower) : FoundAt(k)
        ELSE IF NameMatches(Lower) # {} THEN FoundAt(FirstOf(NameMatches(Lower)))
        ELSE p_out = None

\* C23 amended: names are compared after trimming and lower-casing; the
\* lookup returns the identifier of the first such template associated with
\* the target team if any exists, otherwise that of the first name match,
\* otherwise not found; it gives not found as well when the record it
\* settled on carries no id, and on any backend error; it never raises.
C23_TrimmedNameMatch ==
    TemplateLooked =>
        LET chosen == IF TeamMatches(Normalised) # {} THEN FirstOf(TeamMatches(Normalised))
                      ELSE IF NameMatches(Normalised) # {} THEN FirstOf(NameMatches(Normalised))
                      ELSE 0
        IN IF p_in.o # "ok" \/ chosen = 0 THEN p_out = None
           ELSE IF "id" \in DOMAIN p_in.templates[chosen] THEN FoundAt(chosen)
           ELSE p_out = None

\* C23 witness: the lookup passed over an earlier name match of another team
\* and returned the template of the target team.
C23_Witness ==
    /\ TemplateLooked
    /\ p_in.o = "ok"
    /\ Len(p_in.templates) >= 2
    /\ 1 \in NameMatches(Normalised) \ TeamMatches(Normalised)
    /\ TeamMatches(Normalised) # {}
    /\ FoundAt(FirstOf(TeamMatches(Normalised)))

----------------------------------------------------------------------------
(* Claims about failures of backend calls, checked under SpecSession.      *)

\* the team's project-cache entry as a failed creation must leave it: the
\* entry the call found, or the list the call had just fetched
EntryBeforeCreate(team_id) ==
    IF team_id \in DOMAIN last.cache_before THEN last.cache_before[team_id]
    ELSE last.b_before[team_id]

\* C25: a backend call that fails leaves the caches unchanged: a failed
\* list-teams or list-projects stores nothing, a create-project that was
\* rejected or answered without the project appends nothing to the team's
\* cache entry, and create_issue modifies neither cache.
C25_AsStated ==
    /\ LastCreateIssue =>
          /\ teams_cache = last.teams_before
          /\ projects_cache = last.cache_before
    /\ LastResolve =>
          \A k \in NewRequests :
              ~calls[k].ok =>
                  /\ calls[k].op = "list_teams" => teams_cache = last.teams_before
                  /\ calls[k].op = "list_projects" => projects_cache = last.cache_before
                  /\ IsCreate(calls[k]) =>
                        /\ calls[k].team \in DOMAIN projects_cache
                        /\ projects_cache[calls[k].team] = EntryBeforeCreate(calls[k].team)

----------------------------------------------------------------------------
(* Resolved identifiers: what resolve_identifiers hands back.              *)

\* team_id / project_id of the LinearIdentifiers the client of kind k returns
IdentifierOf(k, record) ==
    IF k = "mcp" THEN MCP_record_id(record) ELSE Base_extract_id(record)

\* C22: resolve_identifiers succeeds only if the team record and the project
\* record it returns both carry a non-empty identifier under one of the
\* identifier fields, so team_id and project_id of every returned value are
\* defined.
C22_AsStated ==
    (LastResolve /\ last.res.ok) =>
        /\ IdentifierOf(kind, last.res.value.team).ok
        /\ IdentifierOf(kind, last.res.value.project).ok

----------------------------------------------------------------------------
(* SpecReply: resolve_identifiers of a client inside its session and with  *)
(* empty caches, against every way the backend can answer each of its      *)
(* requests: what the transport raises and what shape the answer has.      *)

\* "HTTP "
Txt_HTTP == <<72,84,84,80,32>>
\* "Request timed out"
Txt_TimedOut == <<82,101,113,117,101,115,116,32,116,105,109,101,100,32,111,117,116>>
\* "Invalid JSON response: "
Txt_InvalidJSON == <<73,110,118,97,108,105,100,32,74,83,79,78,32,114,101,115,112,111,110,115,101,58,32>>
\* "GraphQL errors: "
Txt_GraphQLErrors == <<71,114,97,112,104,81,76,32,101,114,114,111,114,115,58,32>>
\* "No data in response: "
Txt_NoData == <<78,111,32,100,97,116,97,32,105,110,32,114,101,115,112,111,110,115,101,58,32>>
\* "'NoneType' object has no attribute 'get'"
Txt_NoGet == <<39,78,111,110,101,84,121,112,101,39,32,111,98,106,101,99,116,32,104,97,115,32,110,111,32,97,116,116,114,105,98,117,116,101,32,39,103,101,116,39>>
\* "'NoneType' object is not iterable"
Txt_NotIterable == <<39,78,111,110,101,84,121,112,101,39,32,111,98,106,101,99,116,32,105,115,32,110,111,116,32,105,116,101,114,97,98,108,101>>
\* "' timed out"
Txt_ToolTimedOut == <<39,32,116,105,109,101,100,32,111,117,116>>
\* "Unexpected MCP error for tool '"
Txt_UnexpectedMCP == <<85,110,101,120,112,101,99,116,101,100,32,77,67,80,32,101,114,114,111,114,32,102,111,114,32,116,111,111,108,32,39>>

\* the values of a JSON body: null, true/false, an object (its members under
\* f) and a list (its items under s; the items are records)
JNull == [j |-> "null"]
JBool(b) == [j |-> "bool", b |-> b]
JObject(f) == [j |-> "object", f |-> f]
JList(s) == [j |-> "list", s |-> s]
\* {}
NoMembers == [k \in {} |-> JNull]

\* value.get(key, default): only a dict has get
Py_get(value, key, default) ==
    IF value.j = "object"
    THEN Ok(IF key \in DOMAIN value.f THEN value.f[key] ELSE default)
    ELSE Raise("AttributeError", Txt_NoGet)

\* bool(value)
Py_truthy(value) ==
    CASE value.j = "null" -> FALSE
      [] value.j = "bool" -> value.b
      [] value.j = "list" -> value.s # <<>>
      [] OTHER -> DOMAIN value.f # {}

\* _execute_graphql on the reply to one request: what the POST raised
\* (status, timeout, error), a body that is not JSON (notjson), or a body
GQL_execute_graphql(reply) ==
    CASE reply.t = "status" -> Raise("LinearGraphQLError", Txt_HTTP)
      [] reply.t = "timeout" -> Raise("LinearGraphQLError", Txt_TimedOut)
      [] reply.t = "error" -> GQL_request_failed
      [] reply.t = "notjson" -> Raise("LinearGraphQLError", Txt_InvalidJSON)
      [] OTHER ->
           IF "errors" \in DOMAIN reply.body.f
           THEN Raise("LinearGraphQLError", Txt_GraphQLErrors)
           ELSE IF "data" \notin DOMAIN reply.body.f
           THEN Raise("LinearGraphQLError", Txt_NoData)
           ELSE Ok(reply.body.f.data)

\* _list_teams with nothing cached: result.get("teams", {}).get("nodes", [])
GQL_teams_of(reply) ==
    LET result == GQL_execute_graphql(reply)
        teams == Py_get(result.value, "teams", JObject(NoMembers))
    IN IF ~result.ok THEN result
       ELSE IF ~teams.ok THEN teams
       ELSE Py_get(teams.value, "nodes", JList(<<>>))

\* _list_projects with nothing cached:
\* result.get("team", {}).get("projects", {}).get("nodes", [])
GQL_projects_of(reply) ==
    LET result == GQL_execute_graphql(reply)
        team == Py_get(result.value, "team", JObject(NoMembers))
        projects == Py_get(team.value, "projects", JObject(NoMembers))
    IN IF ~result.ok THEN result
       ELSE IF ~team.ok THEN team
       ELSE IF ~projects.ok THEN projects
       ELSE Py_get(projects.value, "nodes", JList(<<>>))

\* _create_project on the reply to the mutation
GQL_created_project_of(reply, name, team_name) ==
    LET result == GQL_execute_graphql(reply)
        projectCreate == Py_get(result.value, "projectCreate", JObject(NoMembers))
        success == Py_get(projectCreate.value, "success", JNull)
    IN IF ~result.ok THEN result
       ELSE IF ~projectCreate.ok THEN projectCreate
       ELSE IF ~success.ok THEN success
       ELSE IF ~Py_truthy(success.value)
       THEN Raise("LinearGraphQLError",
                  Txt_FailedToCreate \o name \o Txt_InTeam \o team_name \o Txt_Quote)
       ELSE IF "project" \notin DOMAIN projectCreate.value.f
       THEN Raise("KeyError", <<39,112,114,111,106,101,99,116,39>>)
       ELSE IF ~Py_truthy(projectCreate.value.f.project)
       THEN Raise("LinearGraphQLError", Txt_NoProject)
       ELSE Ok(projectCreate.value.f.project.f)

\* _match_record on what a list request gave: the loop needs an iterable
GQL_match_in(records, expected, entity_label) ==
    IF records.j = "list" THEN GQL_match_record(records.s, expected, entity_label)
    ELSE Raise("TypeError", Txt_NotIterable)

\* LinearGraphQLClient.resolve_identifiers, the three requests answered by
\* rT, rP and rC
GQL_resolve_identifiers_on(team, project, create_missing_projects, rT, rP, rC) ==
    LET teams == GQL_teams_of(rT)
        team_record == GQL_match_in(teams.value, team, Txt_team)
        projects == GQL_projects_of(rP)
        found == GQL_match_in(projects.value, project, Txt_project)
        made == GQL_created_project_of(
                       rC, project,
                       IF "name" \in DOMAIN team_record.value
                       THEN team_record.value.name ELSE team_record.value.id)
    IN IF ~teams.ok THEN teams
       ELSE IF ~team_record.ok THEN team_record
       ELSE IF "id" \notin DOMAIN team_record.value
       THEN Raise("KeyError", <<39, 105, 100, 39>>)
       ELSE IF ~projects.ok THEN projects
       ELSE IF found.ok
       THEN Ok([team |-> team_record.value, project |-> found.value])
       ELSE IF found.error # "LinearGraphQLError" \/ ~create_missing_projects
       THEN found
       ELSE IF ~made.ok THEN made
       ELSE Ok([team |-> team_record.value, project |-> made.value])

\* _call_tool inside the session: what call_tool raised (McpError,
\* TimeoutError, Exception) or the result it returned
MCP_call_tool(reply, tool) ==
    CASE reply.t = "McpError" -> MCP_tool_failed(tool)
      [] reply.t = "TimeoutError" ->
           Raise("LinearMCPError", Txt_MCPTool \o tool \o Txt_ToolTimedOut)
      [] reply.t = "Exception" ->
           Raise("LinearMCPError", Txt_UnexpectedMCP \o tool \o Txt_Quote)
      [] OTHER -> Ok(reply)

\* _list_teams / _list_projects with nothing cached
MCP_list_of(reply, tool) ==
    LET result == MCP_call_tool(reply, tool)
    IN IF ~result.ok THEN result
       ELSE MCP_extract_structured_list(result.value.items, tool)

\* _create_project on the reply to the tool call
MCP_created_project_of(reply) ==
    LET result == MCP_call_tool(reply, Txt_create_project)
    IN IF ~result.ok THEN result
       ELSE MCP_extract_structured_dict(result.value.object, Txt_create_project)

\* LinearMCPClient.resolve_identifiers, the three tool calls answered by rT,
\* rP and rC
MCP_resolve_identifiers_on(team, project, create_missing_projects, rT, rP, rC) ==
    LET teams == MCP_list_of(rT, Txt_list_teams)
        team_record == MCP_match_record(teams.value, team, Txt_team)
        team_id == MCP_record_id(team_record.value)
        projects == MCP_list_of(rP, Txt_list_projects)
        found == MCP_match_record(projects.value, project, Txt_project)
        made == MCP_created_project_of(rC)
    IN IF ~teams.ok THEN teams
       ELSE IF ~team_record.ok THEN team_record
       ELSE IF ~team_id.ok THEN team_id
       ELSE IF ~projects.ok THEN projects
       ELSE IF found.ok
       THEN Ok([team |-> team_record.value, project |-> found.value])
       ELSE IF ~create_missing_projects THEN found
       ELSE IF ~made.ok THEN made
       ELSE Ok([team |-> team_record.value, project |-> made.value])

\* "New"
S_New == <<78, 101, 119>>

\* a team the backend lists without its id
NamelessId == [name |-> S_Be]

\* what the POST of a GraphQL request can raise, or a body that is not JSON
GqlFailures == { [t |-> x] : x \in {"status", "timeout", "error", "notjson"} }
GqlBody(f) == [t |-> "json", body |-> JObject(f)]
GqlData(f) == GqlBody([data |-> JObject(f)])
\* bodies every request can be answered with: {"errors": [...]}, {},
\* {"data": null}, {"data": {}}
GqlCommon ==
    { GqlBody([errors |-> JList(<< [message |-> <<110, 111>>] >>)]),
      GqlBody(NoMembers),
      GqlBody([data |-> JNull]),
      GqlData(NoMembers) }

TeamReplies ==
    GqlFailures \cup GqlCommon \cup
    { GqlData([teams |-> JNull]),
      GqlData([teams |-> JObject([nodes |-> JNull])]),
      GqlData([teams |-> JObject([nodes |-> JList(<<NamelessId>>)])]),
      GqlData([teams |-> JObject([nodes |-> JList(BackendTeams)])]) }

ProjectReplies ==
    GqlFailures \cup GqlCommon \cup
    { GqlData([team |-> JNull]),
      GqlData([team |-> JObject([projects |-> JNull])]),
      GqlData([team |-> JObject([projects |-> JObject([nodes |-> JNull])])]),
      GqlData([team |-> JObject([projects |->
                  JObject([nodes |-> JList(InitialProjects[S_t1])])])]) }

CreateReplies ==
    GqlFailures \cup GqlCommon \cup
    { GqlData([projectCreate |-> JNull]),
      GqlData([projectCreate |-> JObject([success |-> JBool(FALSE)])]),
      GqlData([projectCreate |-> JObject([success |-> JBool(TRUE)])]),
      GqlData([projectCreate |-> JObject([success |-> JBool(TRUE), project |-> JNull])]),
      GqlData([projectCreate |->
                  JObject([success |-> JBool(TRUE),
                           project |-> JObject(CreatedProject(0, S_New))])]) }

\* what call_tool can raise
ToolFailures == { [t |-> x] : x \in {"McpError", "TimeoutError", "Exception"} }
\* a result carrying a list of objects (none when the content is no list)
ToolList(items) == [t |-> "result", items |-> items]
\* a result carrying an object, or none
ToolObject(object) == [t |-> "result", object |-> object]

ToolTeamReplies ==
    ToolFailures \cup { ToolList(<<>>), ToolList(<<NamelessId>>), ToolList(BackendTeams) }
ToolProjectReplies ==
    ToolFailures \cup { ToolList(<<>>), ToolList(InitialProjects[S_t1]) }
ToolCreateReplies ==
    ToolFailures \cup { ToolObject(None), ToolObject(Some(ErrorObject)),
                        ToolObject(Some(CreatedProject(0, S_New))) }

RepliesOf(k, gql, tool) == IF k = "mcp" THEN tool ELSE gql

InitReply ==
    /\ \E k \in {"mcp", "graphql"} :
          p_in \in [kind : {k}, team : {<<32, 98, 101>>}, project : {S_Pay, S_New},
                    flag : BOOLEAN,
                    rT : RepliesOf(k, TeamReplies, ToolTeamReplies),
                    rP : RepliesOf(k, ProjectReplies, ToolProjectReplies),
                    rC : RepliesOf(k, CreateReplies, ToolCreateReplies)]
    /\ p_out = Pending
    /\ PureOnly
    /\ pc = "reply"

ApplyReply ==
    /\ pc = "reply"
    /\ p_out = Pending
    /\ p_out' = IF p_in.kind = "mcp"
                THEN MCP_resolve_identifiers_on(p_in.team, p_in.project, p_in.flag,
                                                p_in.rT, p_in.rP, p_in.rC)
                ELSE GQL_resolve_identifiers_on(p_in.team, p_in.project, p_in.flag,
                                                p_in.rT, p_in.rP, p_in.rC)
    /\ UNCHANGED <<p_in, matchVars, clientVars, callerVars, batchVars, pc>>

NextReply == ApplyReply

SpecReply == InitReply /\ [][NextReply]_vars

----------------------------------------------------------------------------
(* Error kinds: what a failed backend interaction surfaces as.             *)

Replied == pc = "reply" /\ p_out # Pending

\* C21: every failure of a backend interaction made through a client
\* (transport, timeout, HTTP error, malformed or unexpectedly shaped
\* response, record without the expected field) surfaces from
\* resolve_identifiers as that client's domain error, LinearMCPError or
\* LinearGraphQLError, and never as another exception type.
C21_AsStated ==
    (Replied /\ ~p_out.ok) => p_out.error = DomainErrorOf(p_in.kind)

====
